---- MODULE Spec2Model ----
(***************************************************************************)
(* A model of the adaptive quiz engine of ai_quizzer:                      *)
(*   - the persistence layer (app/quiz/crud.py) with its quiz and          *)
(*     submission tables,                                                  *)
(*   - the Distribution Planner get_adaptive_question_distribution,        *)
(*   - the Content Requester generate_quiz_ai and the /quiz/generate       *)
(*     route around it,                                                    *)
(*   - the Grader evaluate_quiz_ai.                                        *)
(*                                                                         *)
(* Strings that the code inspects character by character (subjects,        *)
(* options, answers) are sequences of one-character strings.  Scores and   *)
(* points are integers; int(N * 0.k) is (N * k) \div 10, which agrees with *)
(* the floating-point product for every N up to 100000, and a comparison   *)
(* ratio > 0.k is done by cross-multiplication.                            *)
(***************************************************************************)
EXTENDS Integers, Sequences, FiniteSets, TLC

VARIABLES
    quizzes,      \* table "quizzes": sequence of Quiz rows, id = position
    submissions,  \* table "submissions": sequence of Submission rows, id = position
    now,          \* the database clock behind server_default=func.now()
    plan,         \* the last call of get_adaptive_question_distribution and its result
    genPc,        \* position of the /quiz/generate handler
    genReq,       \* the QuizCreate request being served
    genDist,      \* final_distribution of the request being served
    outcomes,     \* what each provider invocation of this request ended in, in order
    genData,      \* how generate_quiz_ai ended: the document returned, or raised
    genOut,       \* the response of /quiz/generate
    evalIn,       \* arguments of the last evaluate_quiz_ai call
    evalOut,      \* its outcome: a raised error or the result dict
    evalAgain,    \* outcome of a second evaluate_quiz_ai call with the same arguments
    subReq,       \* the last /quiz/evaluate request with its authenticated user
    subOut,       \* the response of /quiz/evaluate
    board,        \* the last /quiz/leaderboard request and its response
    history,      \* the last /quiz/history request with its authenticated user, and the response
    nextDiff,     \* the last /quiz/next_difficulty request and its response
    session       \* st.session_state of the quiz-taking page

dbVars   == <<quizzes, submissions, now>>
genVars  == <<genPc, genReq, genDist, outcomes, genData, genOut>>
evalVars == <<evalIn, evalOut, evalAgain>>
subVars  == <<subReq, subOut>>
pageVars == <<history, nextDiff, session>>
vars     == <<quizzes, submissions, now, plan, genPc, genReq, genDist, outcomes,
              genData, genOut, evalIn, evalOut, evalAgain, subReq, subOut, board,
              history, nextDiff, session>>

----------------------------------------------------------------------------
(* Bounds of the model *)

MaxN == 10          \* largest total_questions given to the planner directly
MaxHist == 3        \* submissions stored in the planner-arithmetic specification
MaxSubs == 4        \* submissions stored in the planner-selection specification
MaxRouteN == 5      \* largest accepted total_questions requested through the route
GenMaxLen == 6      \* most questions in one provider document
MaxQ == 2           \* longest question list and answer list given to the grader

----------------------------------------------------------------------------
(* Generic helpers *)

Max(a, b) == IF a >= b THEN a ELSE b

Min(a, b) == IF a <= b THEN a ELSE b

RECURSIVE SumOver(_, _)
SumOver(S, f) ==
    IF S = {} THEN 0
    ELSE LET x == CHOOSE y \in S : TRUE IN f[x] + SumOver(S \ {x}, f)

Users == {"alice", "bob"}

----------------------------------------------------------------------------
(* Subjects and SQL pattern matching *)

\* Letters of the subject alphabet with their lower-case form.
Lower(c) ==
    IF c = "A" THEN "a" ELSE IF c = "B" THEN "b" ELSE c

\* The SQL operator  s ILIKE p : "%" matches any run of characters, "_" any one
\* character, every other character matches itself without regard to case.
RECURSIVE ILike(_, _)
ILike(s, p) ==
    IF p = <<>> THEN s = <<>>
    ELSE IF Head(p) = "%"
         THEN ILike(s, Tail(p)) \/ (s # <<>> /\ ILike(Tail(s), p))
         ELSE /\ s # <<>>
              /\ (Head(p) = "_" \/ Lower(Head(p)) = Lower(Head(s)))
              /\ ILike(Tail(s), Tail(p))

\* The f"%{subject}%" pattern the queries build.
SubjectPattern(subject) == <<"%">> \o subject \o <<"%">>

----------------------------------------------------------------------------
(* Questions as the generate route stores them *)

StdOptions == << <<"A", ")", " ", "x">>, <<"B", ")", " ", "y">>,
                 <<"C", ")", " ", "z">>, <<"D", ")", " ", "w">> >>

\* The placeholder the route appends when the provider returned too few questions.
Placeholder(k, medium_points) ==
    [question |-> <<"Additional question", k>>,   \* f"Additional question {k}"
     options |-> StdOptions,
     correct_option |-> <<"A">>,
     difficulty |-> "medium",
     points |-> medium_points,
     explanation |-> "Placeholder explanation."]

----------------------------------------------------------------------------
(* Persistence: crud.create_quiz, crud.create_submission *)

create_quiz(qs, user_id, payload) ==
    Append(qs, [id |-> Len(qs) + 1,
                user_id |-> user_id,
                grade |-> payload.grade,
                subject |-> payload.subject,
                total_questions |-> payload.total_questions,
                max_score |-> payload.max_score,
                difficulty |-> payload.difficulty,
                questions |-> payload.questions,
                distribution |-> payload.distribution,
                points_strategy |-> payload.points_strategy])

create_submission(subs, payload, at) ==
    Append(subs, [id |-> Len(subs) + 1,
                  quiz_id |-> payload.quiz_id,
                  user_id |-> payload.user_id,
                  total_score |-> payload.total_score,
                  max_score |-> payload.max_score,
                  answers_json |-> payload.answers_json,
                  feedback_json |-> payload.feedback_json,
                  suggestions |-> payload.suggestions,
                  performance_metrics |-> payload.performance_metrics,
                  created_at |-> at])

\* json.dumps(x): the text is kept as the value it encodes, marked as JSON text.
json_dumps(x) == <<"json", x>>

\* The text columns of a submission whose content the planner and the
\* leaderboard never read.
NoTexts ==
    [answers_json |-> json_dumps(<<>>), feedback_json |-> json_dumps(<<>>),
     suggestions |-> <<>>, performance_metrics |-> json_dumps(<<>>)]

----------------------------------------------------------------------------
(* Distribution Planner: crud.get_adaptive_question_distribution *)

\* int(total_questions * 0.k)
Share(total_questions, k) == (total_questions * k) \div 10

\* Submission JOIN Quiz WHERE Submission.user_id = user AND Quiz.subject ILIKE %subject%
MatchingIds(qs, subs, user_id, subject) ==
    {i \in 1..Len(subs) :
        /\ subs[i].quiz_id \in 1..Len(qs)
        /\ subs[i].user_id = user_id
        /\ ILike(qs[subs[i].quiz_id].subject, SubjectPattern(subject))}

RecentLimit == 3

\* ORDER BY created_at DESC LIMIT 3: every set of rows the database may return.
\* Rows with equal created_at are returned in an order the database chooses.
RecentSelections(qs, subs, user_id, subject) ==
    LET M == MatchingIds(qs, subs, user_id, subject)
    IN {S \in SUBSET M :
          /\ Cardinality(S) = Min(RecentLimit, Cardinality(M))
          /\ \A i \in S : \A j \in M \ S : subs[i].created_at >= subs[j].created_at}

\* performance_ratio as a fraction <<numerator, denominator>>
PerformanceRatio(total_score, max_possible) ==
    IF max_possible > 0 THEN <<total_score, max_possible>> ELSE <<1, 2>>

\* Mutant of RatioAbove: the thresholds taken as inclusive (ratio >= k/10).
RatioAtLeast(ratio, k) == ratio[1] * 10 >= k * ratio[2]

\* ratio > k/10
RatioAbove(ratio, k) == ratio[1] * 10 > k * ratio[2]

\* Mutant of StartMix: the easy and medium percentages exchanged.
StartMix_Swapped(n) ==
    [easy |-> Share(n, 3),
     medium |-> Share(n, 5),
     hard |-> Max(1, n - Share(n, 5) - Share(n, 3))]

\* "First quiz - start with a balanced distribution"
StartMix(n) ==
    [easy |-> Share(n, 5),
     medium |-> Share(n, 3),
     hard |-> Max(1, n - Share(n, 5) - Share(n, 3))]

\* Mutant of HighMix: hard floored on its own ("40% hard") instead of taken as
\* the remainder.
HighMix_FlooredHard(n) ==
    [easy |-> Max(1, Share(n, 2)),
     medium |-> Share(n, 4),
     hard |-> Share(n, 4)]

\* "Doing well - increase difficulty"
HighMix(n) ==
    [easy |-> Max(1, Share(n, 2)),
     medium |-> Share(n, 4),
     hard |-> Max(1, n - Share(n, 2) - Share(n, 4))]

\* "Average performance - balanced"
BalancedMix(n) ==
    [easy |-> Share(n, 4),
     medium |-> Share(n, 4),
     hard |-> Max(1, n - Share(n, 4) - Share(n, 4))]

\* "Struggling - easier questions"
EasierMix(n) ==
    [easy |-> Share(n, 6),
     medium |-> Share(n, 3),
     hard |-> Max(1, n - Share(n, 6) - Share(n, 3))]

\* The branches of the planner over the rows `rows` (submission ids) it selected.
Distribution(subs, rows, n) ==
    IF rows = {}
    THEN StartMix(n)
    ELSE LET total_score  == SumOver(rows, [i \in rows |-> subs[i].total_score])
             max_possible == SumOver(rows, [i \in rows |-> subs[i].max_score])
             ratio == PerformanceRatio(total_score, max_possible)
         IN IF RatioAbove(ratio, 8) THEN HighMix(n)
            ELSE IF RatioAbove(ratio, 5) THEN BalancedMix(n)
            ELSE EasierMix(n)

NoPlan ==
    [called |-> FALSE, user_id |-> "", subject |-> <<>>, total_questions |-> 0,
     rows |-> {}, mix |-> [easy |-> 0, medium |-> 0, hard |-> 0]]

\* One call of get_adaptive_question_distribution(db, user_id, subject, total_questions).
PlannerCall(user_id, subject, n) ==
    /\ \E rows \in RecentSelections(quizzes, submissions, user_id, subject) :
          plan' = [called |-> TRUE, user_id |-> user_id, subject |-> subject,
                   total_questions |-> n, rows |-> rows,
                   mix |-> Distribution(submissions, rows, n)]
    /\ UNCHANGED <<dbVars, genVars, evalVars, subVars, board, pageVars>>

----------------------------------------------------------------------------
(* Initial state: a database holding two stored quizzes and no submission *)

MinQuestions == 5
MaxQuestions == 30

DefaultPoints == [easy |-> 1, medium |-> 2, hard |-> 3]

\* A quiz as /quiz/generate stores it when the provider returned no question:
\* MinQuestions placeholders.
StoredPayload(subject) ==
    [grade |-> 5,
     subject |-> subject,
     total_questions |-> MinQuestions,
     max_score |-> 10,
     difficulty |-> "ADAPTIVE",
     questions |-> [k \in 1..MinQuestions |-> Placeholder(k, DefaultPoints.medium)],
     distribution |-> StartMix(MinQuestions),
     points_strategy |-> DefaultPoints]

QuizTable ==
    create_quiz(create_quiz(<<>>, "alice", StoredPayload(<<"A", "b">>)),
                "bob", StoredPayload(<<"b">>))

NoRequest == [user_id |-> "", grade |-> 0, subject |-> <<>>, total_questions |-> 0,
              max_score |-> 0, points_strategy |-> DefaultPoints]

NoMix == [easy |-> 0, medium |-> 0, hard |-> 0]

NoData == [state |-> "none", questions |-> <<>>]

NoOut == [status |-> 0, quiz_id |-> 0, questions |-> <<>>]

NoEvalIn == [quiz_data |-> <<>>, user_answers |-> <<>>]

NoEvalOut == [kind |-> "none"]

NoSubReq == [user_id |-> "", quiz_id |-> 0, user_answers |-> <<>>]

NoSubOut == [code |-> 0]

NoBoard == [called |-> FALSE]

NoHistory == [called |-> FALSE]

NoNextDiff == [called |-> FALSE]

\* No quiz is loaded in the quiz-taking page.
NoSession == [loaded |-> FALSE]

\* No generation request under way.
IdleGen ==
    /\ genPc = "idle"
    /\ genReq = NoRequest
    /\ genDist = NoMix
    /\ outcomes = <<>>
    /\ genData = NoData
    /\ genOut = NoOut

\* No grader call made.
IdleEval ==
    /\ evalIn = NoEvalIn
    /\ evalOut = NoEvalOut
    /\ evalAgain = NoEvalOut

\* No evaluation request and no leaderboard request served.
IdleRoutes ==
    /\ subReq = NoSubReq
    /\ subOut = NoSubOut
    /\ board = NoBoard
    /\ history = NoHistory
    /\ nextDiff = NoNextDiff
    /\ session = NoSession

Init ==
    /\ quizzes = QuizTable
    /\ submissions = <<>>
    /\ now = 0
    /\ plan = NoPlan
    /\ IdleGen
    /\ IdleEval
    /\ IdleRoutes

----------------------------------------------------------------------------
(* Planner arithmetic: one learner's history on one quiz, every size 1..MaxN *)

\* (total_score, max_score) of the submissions stored: ratios 0/0, 0.2, 0.5, 0.8, 0.9
ScorePool == {<<0, 0>>, <<2, 10>>, <<5, 10>>, <<8, 10>>, <<9, 10>>}

\* crud.create_submission for alice on quiz 1; the clock has advanced since the last one.
StoreOwnSubmission ==
    /\ Len(submissions) < MaxHist
    /\ \E sc \in ScorePool :
          /\ now' = now + 1
          /\ submissions' = create_submission(submissions,
                                [quiz_id |-> 1, user_id |-> "alice",
                                 total_score |-> sc[1], max_score |-> sc[2]] @@ NoTexts,
                                now')
    /\ plan' = NoPlan
    /\ UNCHANGED <<quizzes, genVars, evalVars, subVars, board, pageVars>>

\* get_adaptive_question_distribution called for alice and a subject of her quiz.
PlanDirect ==
    \E n \in 1..MaxN : PlannerCall("alice", <<"a">>, n)

NextMix == StoreOwnSubmission \/ PlanDirect

SpecMix == Init /\ [][NextMix]_vars

----------------------------------------------------------------------------
(* Planner arithmetic over every size /quiz/generate accepts *)

MaxTierHist == 1    \* submissions stored in the accepted-sizes specification

\* crud.create_submission for alice on quiz 1.
StoreTierSubmission ==
    /\ Len(submissions) < MaxTierHist
    /\ \E sc \in ScorePool :
          /\ now' = now + 1
          /\ submissions' = create_submission(submissions,
                                [quiz_id |-> 1, user_id |-> "alice",
                                 total_score |-> sc[1], max_score |-> sc[2]] @@ NoTexts,
                                now')
    /\ plan' = NoPlan
    /\ UNCHANGED <<quizzes, genVars, evalVars, subVars, board, pageVars>>

\* The planner called as /quiz/generate calls it, with a size it accepted.
PlanAccepted ==
    \E n \in MinQuestions..MaxQuestions : PlannerCall("alice", <<"a">>, n)

NextTier == StoreTierSubmission \/ PlanAccepted

SpecTier == Init /\ [][NextTier]_vars

----------------------------------------------------------------------------
(* Planner selection: two learners, two quizzes, equal timestamps possible *)

\* Submissions stored: alice's on quiz 1 with a low and a high score, alice's on
\* quiz 2, bob's on quiz 1.
PlanPayloads ==
    {[quiz_id |-> 1, user_id |-> "alice", total_score |-> 2, max_score |-> 10] @@ NoTexts,
     [quiz_id |-> 1, user_id |-> "alice", total_score |-> 9, max_score |-> 10] @@ NoTexts,
     [quiz_id |-> 2, user_id |-> "alice", total_score |-> 9, max_score |-> 10] @@ NoTexts,
     [quiz_id |-> 1, user_id |-> "bob", total_score |-> 2, max_score |-> 10] @@ NoTexts}

\* Subjects a request may name, among them the LIKE wildcard "_".
RequestSubjects == {<<"a">>, <<"B">>, <<"_">>}

\* crud.create_submission; func.now() may return the timestamp of the previous
\* insert again.
StoreSubmission ==
    /\ Len(submissions) < MaxSubs
    /\ \E payload \in PlanPayloads, adv \in {0, 1} :
          /\ now' = now + adv
          /\ submissions' = create_submission(submissions, payload, now')
    /\ plan' = NoPlan
    /\ UNCHANGED <<quizzes, genVars, evalVars, subVars, board, pageVars>>

\* get_adaptive_question_distribution as /quiz/generate calls it.
PlanForRequest ==
    \E u \in Users, s \in RequestSubjects, n \in MinQuestions..MaxRouteN :
        PlannerCall(u, s, n)

NextPlan == StoreSubmission \/ PlanForRequest

SpecPlan == Init /\ [][NextPlan]_vars

----------------------------------------------------------------------------
(* Content Requester: ai_utils.generate_quiz_ai *)

RequiredFields ==
    {"question", "options", "correct_option", "difficulty", "points", "explanation"}

\* Mutant of ValidQuestion: "explanation" is not required.
ValidQuestion_NoExplanation(q) ==
    /\ (RequiredFields \ {"explanation"}) \subseteq DOMAIN q
    /\ q.correct_option \in {<<"A">>, <<"B">>, <<"C">>, <<"D">>}
    /\ q.difficulty \in {"easy", "medium", "hard"}

\* "Validate each question"
ValidQuestion(q) ==
    /\ RequiredFields \subseteq DOMAIN q
    /\ q.correct_option \in {<<"A">>, <<"B">>, <<"C">>, <<"D">>}
    /\ q.difficulty \in {"easy", "medium", "hard"}

\* What one provider invocation ends in, as generate_questions sees it:
\*   exception   model.generate_content raised
\*   empty       no response text
\*   unparsable  json.loads raised
\*   no_key      the JSON is no object with a "questions" key
\*   not_list    "questions" is no list
\*   document    {"questions": [...]}
FailureKinds == {"exception", "empty", "unparsable", "no_key", "not_list"}

\* generate_questions(): the document, or a raised error.
generate_questions(response) ==
    IF /\ response.kind = "document"
       /\ \A i \in 1..Len(response.questions) : ValidQuestion(response.questions[i])
    THEN [ok |-> TRUE, verdict |-> "valid", questions |-> response.questions]
    ELSE [ok |-> FALSE,
          verdict |-> IF response.kind = "document" THEN "invalid_question"
                      ELSE response.kind,
          questions |-> <<>>]

\* Mutant of max_retries: a budget of three attempts.
max_retries_three == 2 + 1

max_retries == 2

----------------------------------------------------------------------------
(* The /quiz/generate route *)

\* Mutant of PadTruncate: the padding loop without the truncation before it.
PadOnly(questions, total_questions, medium_points) ==
    questions \o
    [k \in 1..(total_questions - Len(questions)) |->
        Placeholder(Len(questions) + k, medium_points)]

\* "Handle question count mismatch"
PadTruncate(questions, total_questions, medium_points) ==
    LET cut == SubSeq(questions, 1, Min(Len(questions), total_questions))
    IN cut \o [k \in 1..(total_questions - Len(cut)) |->
                  Placeholder(Len(cut) + k, medium_points)]

\* The request is taken up: size validation, max_score adjustment and the planner.
\* A size outside 5..30 raises inside the handler's try block and leaves as 500.
GenerateRequest(user_id, subject, total_questions, max_score, points) ==
    /\ genPc = "idle"
    /\ genReq' = [user_id |-> user_id, grade |-> 5, subject |-> subject,
                  total_questions |-> total_questions,
                  max_score |-> IF total_questions \in MinQuestions..MaxQuestions
                                THEN Max(max_score, total_questions) ELSE max_score,
                  points_strategy |-> points]
    /\ outcomes' = <<>>
    /\ genData' = NoData
    /\ IF total_questions \in MinQuestions..MaxQuestions
       THEN /\ \E rows \in RecentSelections(quizzes, submissions, user_id, subject) :
                 plan' = [called |-> TRUE, user_id |-> user_id, subject |-> subject,
                          total_questions |-> total_questions, rows |-> rows,
                          mix |-> Distribution(submissions, rows, total_questions)]
            /\ genDist' = plan'.mix
            /\ genPc' = "calling"
            /\ genOut' = NoOut
       ELSE /\ genPc' = "failed"
            /\ genOut' = [status |-> 500, quiz_id |-> 0, questions |-> <<>>]
            /\ UNCHANGED <<plan, genDist>>
    /\ UNCHANGED <<dbVars, evalVars, subVars, board, pageVars>>

\* One provider invocation returns `response`; the handler runs on to the next
\* invocation or to its end.
ProviderReturns(response) ==
    /\ genPc = "calling"
    /\ LET r == generate_questions(response)
           attempt == Len(outcomes)
       IN /\ outcomes' = Append(outcomes, r.verdict)
          /\ IF r.ok
             THEN \* generate_quiz_ai returns the document; the route pads or truncates,
                  \* stores the quiz and answers
                  LET questions == PadTruncate(r.questions, genReq.total_questions,
                                               genReq.points_strategy.medium)
                  IN /\ genData' = [state |-> "returned", questions |-> r.questions]
                     /\ quizzes' = create_quiz(quizzes, genReq.user_id,
                            [grade |-> genReq.grade,
                             subject |-> genReq.subject,
                             total_questions |-> genReq.total_questions,
                             max_score |-> genReq.max_score,
                             difficulty |-> "ADAPTIVE",
                             questions |-> questions,
                             distribution |-> genDist,
                             points_strategy |-> genReq.points_strategy])
                     /\ genOut' = [status |-> 200, quiz_id |-> Len(quizzes'),
                                   questions |-> questions]
                     /\ genPc' = "done"
             ELSE IF attempt = max_retries - 1
             THEN \* "All attempts failed.": the error is raised again, the route's
                  \* except clause turns it into a 500
                  /\ genData' = [state |-> "raised", questions |-> <<>>]
                  /\ genOut' = [status |-> 500, quiz_id |-> 0, questions |-> <<>>]
                  /\ genPc' = "failed"
                  /\ UNCHANGED quizzes
             ELSE \* "Retrying..."
                  UNCHANGED <<genPc, genData, genOut, quizzes>>
    /\ UNCHANGED <<submissions, now, plan, genReq, genDist, evalVars, subVars, board, pageVars>>

----------------------------------------------------------------------------
(* One generation request, for every provider behaviour *)

ProviderEasy ==
    [question |-> <<"Provider question", 1>>, options |-> StdOptions,
     correct_option |-> <<"B">>, difficulty |-> "easy", points |-> 1,
     explanation |-> "Explained."]

ProviderHard ==
    [question |-> <<"Provider question", 2>>, options |-> StdOptions,
     correct_option |-> <<"D">>, difficulty |-> "hard", points |-> 3,
     explanation |-> "Explained."]

ValidEntries == {ProviderEasy, ProviderHard}

\* Entries the validation refuses: no explanation, a correct_option outside A-D,
\* a difficulty outside easy/medium/hard.
InvalidEntries ==
    {[question |-> <<"Provider question", 3>>, options |-> StdOptions,
      correct_option |-> <<"A">>, difficulty |-> "easy", points |-> 1],
     [ProviderEasy EXCEPT !.correct_option = <<"E">>],
     [ProviderHard EXCEPT !.difficulty = "Hard"]}

ValidLists == UNION {[1..k -> ValidEntries] : k \in 0..GenMaxLen}

\* Documents of up to GenMaxLen entries, all valid or with one refused entry.
ProviderDocuments ==
    ValidLists \cup
    UNION {{[l EXCEPT ![i] = b] : i \in 1..Len(l), b \in InvalidEntries} : l \in ValidLists}

ProviderResponses ==
    {[kind |-> k, questions |-> <<>>] : k \in FailureKinds}
    \cup {[kind |-> "document", questions |-> l] : l \in ProviderDocuments}

PointsPool == {DefaultPoints, [easy |-> 2, medium |-> 4, hard |-> 6]}

\* Sizes requested: below, inside and above the accepted range.
RouteSizes == ((MinQuestions - 1)..MaxRouteN) \cup {MaxQuestions + 1}

\* The database when the request arrives: alice has one submission on quiz 1,
\* bob has none.
InitGen ==
    /\ quizzes = QuizTable
    /\ submissions = create_submission(<<>>, [quiz_id |-> 1, user_id |-> "alice",
                                              total_score |-> 9, max_score |-> 10]
                                             @@ NoTexts, 1)
    /\ now = Len(submissions)
    /\ plan = NoPlan
    /\ IdleGen
    /\ IdleEval
    /\ IdleRoutes

Generate ==
    \E u \in Users, n \in RouteSizes, m \in {1, 100}, pts \in PointsPool :
        GenerateRequest(u, <<"a">>, n, m, pts)

Provider == \E response \in ProviderResponses : ProviderReturns(response)

NextGen == Generate \/ Provider

SpecGen == InitGen /\ [][NextGen]_vars

\* The same with the scheduling the code gives: the handler takes up a request
\* that arrived. model.generate_content is called without a timeout, so nothing
\* in the program makes a pending provider call return.
SpecGenLive == SpecGen /\ WF_vars(Generate)

----------------------------------------------------------------------------
(* Grader: ai_utils.evaluate_quiz_ai *)

\* Mutant of Upper: letters keep their case.
Upper_Identity(c) == c

Upper(c) ==
    IF c = "a" THEN "A" ELSE IF c = "b" THEN "B" ELSE IF c = "c" THEN "C"
    ELSE IF c = "d" THEN "D" ELSE IF c = "w" THEN "W" ELSE IF c = "x" THEN "X"
    ELSE IF c = "y" THEN "Y" ELSE IF c = "z" THEN "Z" ELSE c

\* str.upper()
UpperStr(s) == [i \in 1..Len(s) |-> Upper(s[i])]

\* str.strip()
RECURSIVE Strip(_)
Strip(s) ==
    IF s = <<>> THEN s
    ELSE IF Head(s) = " " THEN Strip(Tail(s))
    ELSE IF s[Len(s)] = " " THEN Strip(SubSeq(s, 1, Len(s) - 1))
    ELSE s

\* str.startswith()
StartsWith(s, prefix) ==
    /\ Len(s) >= Len(prefix)
    /\ SubSeq(s, 1, Len(prefix)) = prefix

\* isinstance(q, dict): an entry of quiz_data that is no JSON object is written as
\* a record with the one field "nondict".
IsDict(q) == "nondict" \notin DOMAIN q

\* dict.get(key, default)
Get(q, key, default) == IF key \in DOMAIN q THEN q[key] ELSE default

\* The record a non-dict entry is replaced by.
AsDict(q, i) ==
    IF IsDict(q) THEN q
    ELSE [question |-> <<"Question", i>>, options |-> <<>>,
          correct_option |-> <<>>, marks |-> 1]

\* q.get("marks", q.get("points", 1))
QuestionMarks(q) == Get(q, "marks", Get(q, "points", 1))

\* The index of the first option that starts with "<correct_opt>)", 0 if none.
MatchingOption(options, correct_opt) ==
    LET hits == {k \in 1..Len(options) :
                    StartsWith(UpperStr(options[k]), UpperStr(correct_opt) \o <<")">>)}
    IN IF hits = {} THEN 0 ELSE CHOOSE k \in hits : \A j \in hits : k <= j

\* Grading of the question at position i (1-based) against answer user_ans:
\* the feedback entry, or failed = TRUE where the code raises (the first option
\* is indexed although it is the empty string).
GradeOne(q0, user_ans0, i) ==
    LET q == AsDict(q0, i)
        question_marks == QuestionMarks(q)
        question_text == Get(q, "question", <<"Question", i>>)
        options == Get(q, "options", <<>>)
        correct_opt == UpperStr(Strip(Get(q, "correct_option", <<>>)))
        hit == MatchingOption(options, correct_opt)
        raises == hit = 0 /\ options # <<>> /\ options[1] = <<>>
        correct_letter ==
            IF hit # 0 THEN <<Upper(options[hit][1])>>
            ELSE IF options # <<>> /\ options[1] # <<>> THEN <<Upper(options[1][1])>>
            ELSE <<>>
        correct_text ==
            IF hit # 0 /\ Len(options[hit]) > 3
            THEN SubSeq(options[hit], 4, Len(options[hit])) ELSE <<>>
        user_ans == IF user_ans0 # <<>> THEN UpperStr(Strip(user_ans0)) ELSE <<>>
        user_letter == IF user_ans # <<>> THEN <<user_ans[1]>> ELSE <<>>
        is_correct == user_letter = correct_letter
    IN [failed |-> raises,
        feedback |->
            [question |-> question_text,
             user_answer |-> user_ans,
             correct_answer |-> IF correct_letter # <<>>
                                THEN correct_letter \o <<")", " ">> \o correct_text
                                ELSE <<"No correct answer provided">>,
             is_correct |-> is_correct,
             marks_awarded |-> IF is_correct THEN question_marks ELSE 0,
             max_marks |-> question_marks,
             explanation |-> Get(q, "explanation", "No explanation provided.")],
        topic |-> Get(q, "topic", "General")]

\* Mutant of TopicCounts: one entry per incorrect answer, nothing grouped.
TopicCounts_Ungrouped(ts) == [k \in 1..Len(ts) |-> <<ts[k], 1>>]

\* The topics of the incorrect answers with their counts, in order of first
\* occurrence (the dict `topics`).
TopicCounts(ts) ==
    LET IsFirst(k) == \A j \in 1..(k - 1) : ts[j] # ts[k]
        firsts == SelectSeq([k \in 1..Len(ts) |-> k], IsFirst)
    IN [n \in 1..Len(firsts) |->
           <<ts[firsts[n]], Cardinality({j \in 1..Len(ts) : ts[j] = ts[firsts[n]]})>>]

RECURSIVE SeqSum(_)
SeqSum(xs) == IF xs = <<>> THEN 0 ELSE Head(xs) + SeqSum(Tail(xs))

\* (total_score / max_score * 100) rounded to two decimals, in hundredths of a
\* percent; 0 when max_score is 0.
Percentage(total_score, max_score) ==
    IF max_score > 0 THEN (2 * total_score * 10000 + max_score) \div (2 * max_score)
    ELSE 0

\* Mutant of InputMismatch: the comparison of the two lengths left out.
InputMismatch_NoLengths(quiz_data, user_answers) ==
    quiz_data = <<>> \/ user_answers = <<>>

\* not quiz_data or not user_answers or len(quiz_data) != len(user_answers)
InputMismatch(quiz_data, user_answers) ==
    quiz_data = <<>> \/ user_answers = <<>> \/ Len(quiz_data) # Len(user_answers)

IsWrong(g) == ~g.feedback.is_correct

\* Mutant of FreshTally: the tallies of the previous call are still there.
Tally_Kept ==
    IF evalOut # NoEvalOut /\ evalOut.kind = "result"
    THEN [total_score |-> evalOut.total_score, max_score |-> evalOut.max_score,
          correct_answers |-> evalOut.correct_answers,
          feedback_list |-> evalOut.feedback, incorrect_questions |-> <<>>]
    ELSE [total_score |-> 0, max_score |-> 0, correct_answers |-> 0,
          feedback_list |-> <<>>, incorrect_questions |-> <<>>]

\* The local tallies every call starts from.
FreshTally ==
    [total_score |-> 0, max_score |-> 0, correct_answers |-> 0,
     feedback_list |-> <<>>, incorrect_questions |-> <<>>]

evaluate_quiz_ai(quiz_data, user_answers) ==
    IF InputMismatch(quiz_data, user_answers)
    THEN [kind |-> "error", error |-> "ValueError"]
    ELSE
    LET \* zip(quiz_data, user_answers)
        graded == [i \in 1..Min(Len(quiz_data), Len(user_answers)) |->
                      GradeOne(quiz_data[i], user_answers[i], i)]
        max_score == FreshTally.max_score
                     + SeqSum([i \in 1..Len(quiz_data) |->
                                  QuestionMarks(AsDict(quiz_data[i], i))])
        feedback_list == FreshTally.feedback_list
                         \o [i \in 1..Len(graded) |-> graded[i].feedback]
        total_score == FreshTally.total_score
                       + SeqSum([i \in 1..Len(graded) |-> graded[i].feedback.marks_awarded])
        correct_answers == FreshTally.correct_answers
                           + Cardinality({i \in 1..Len(graded) :
                                             graded[i].feedback.is_correct})
        incorrect == FreshTally.incorrect_questions \o SelectSeq(graded, IsWrong)
        topics == TopicCounts([k \in 1..Len(incorrect) |-> incorrect[k].topic])
        percentage == Percentage(total_score, max_score)
        suggestions ==
            IF incorrect # <<>>
            THEN << <<"You scored", correct_answers, "out of", Len(quiz_data)>>,
                    <<"Total score", total_score, max_score, percentage>>,
                    <<"\n", "Areas to focus on">> >>
                 \o [k \in 1..Len(topics) |-> <<"-", topics[k][1], topics[k][2]>>]
                 \o << <<"\n", "Tips for improvement">>,
                       <<"- Review the explanations for incorrect answers">>,
                       <<"- Practice more questions on the topics you struggled with">>,
                       <<"- Take notes on key concepts you found challenging">> >>
            ELSE << <<"Perfect score!", Len(quiz_data)>>,
                    <<"Total score", total_score, max_score, 10000>>,
                    <<"\n", "Great job! You've mastered this material.">>,
                    <<"Consider trying a more challenging quiz next time!">> >>
    IN IF \E i \in 1..Len(graded) : graded[i].failed
       THEN [kind |-> "error", error |-> "IndexError"]
       ELSE [kind |-> "result",
             status |-> "success",
             total_score |-> total_score,
             max_score |-> max_score,
             percentage |-> percentage,
             feedback |-> feedback_list,
             suggestions |-> suggestions,
             correct_answers |-> correct_answers,
             total_questions |-> Len(quiz_data)]

----------------------------------------------------------------------------
(* The grader applied to question lists and answer lists *)

GraderQuestions ==
    {ProviderEasy,
     \* correct_option "A", 3 points
     [ProviderHard EXCEPT !.correct_option = <<"A">>],
     \* points below zero, which the validation of provider documents lets pass
     [ProviderEasy EXCEPT !.points = -1],
     \* "marks" instead of "points", a topic, no option for the correct_option
     [question |-> <<"Stored question", 1>>,
      options |-> << <<"C", ")", " ", "z">>, <<"D", ")", " ", "w">> >>,
      correct_option |-> <<"a">>, difficulty |-> "hard", marks |-> 2,
      topic |-> "Algebra"],
     \* an entry that is no object
     [nondict |-> "text"]}

GraderAnswers == {<<>>, <<" ">>, <<"a">>, <<"B">>, <<" ", "c", "x">>}

\* Lists of equal length with every content, and lists of different lengths (or
\* both empty), for which line 215 looks at the lengths only.
GraderInputs ==
    UNION {{[quiz_data |-> qd, user_answers |-> ua] :
               qd \in [1..k -> GraderQuestions], ua \in [1..k -> GraderAnswers]} :
           k \in 1..MaxQ}
    \cup {[quiz_data |-> [i \in 1..k |-> ProviderEasy],
           user_answers |-> [i \in 1..m |-> <<"a">>]] :
              k \in 0..MaxQ, m \in 0..MaxQ}

\* The arguments of the call are drawn; nothing else has happened.
InitEval ==
    /\ quizzes = <<>>
    /\ submissions = <<>>
    /\ now = 0
    /\ plan = NoPlan
    /\ IdleGen
    /\ evalIn \in GraderInputs
    /\ evalOut = NoEvalOut
    /\ evalAgain = NoEvalOut
    /\ IdleRoutes

\* evaluate_quiz_ai(quiz_data, user_answers) runs.
Evaluate ==
    /\ evalOut = NoEvalOut
    /\ evalOut' = evaluate_quiz_ai(evalIn.quiz_data, evalIn.user_answers)
    /\ UNCHANGED <<dbVars, plan, genVars, evalIn, evalAgain, subVars, board, pageVars>>

\* evaluate_quiz_ai runs once more on the same two lists.
EvaluateAgain ==
    /\ evalOut # NoEvalOut
    /\ evalAgain = NoEvalOut
    /\ evalAgain' = evaluate_quiz_ai(evalIn.quiz_data, evalIn.user_answers)
    /\ UNCHANGED <<dbVars, plan, genVars, evalIn, evalOut, subVars, board, pageVars>>

NextEval == Evaluate \/ EvaluateAgain

SpecEval == InitEval /\ [][NextEval]_vars

----------------------------------------------------------------------------
(* The /quiz/evaluate route *)

\* str.lower() on a difficulty tag
LowerTag(d) ==
    IF d = "Easy" THEN "easy" ELSE IF d = "Medium" THEN "medium"
    ELSE IF d = "Hard" THEN "hard" ELSE d

\* "Calculate performance by difficulty": per tag correct, total, score, max_score.
\* The feedback entries are asked for "score" and "max_score".
performance_metrics(quiz_data, feedback_data) ==
    LET tag(i) == LET d == LowerTag(Get(quiz_data[i], "difficulty", "medium"))
                  IN IF d \in {"easy", "medium", "hard"} THEN d ELSE "medium"
        at(d) == {i \in 1..Len(feedback_data) : i <= Len(quiz_data) /\ tag(i) = d}
        bucket(d) ==
            [correct |-> Cardinality({i \in at(d) :
                                        Get(feedback_data[i], "is_correct", FALSE)}),
             total |-> Cardinality(at(d)),
             score |-> SumOver(at(d), [i \in at(d) |-> Get(feedback_data[i], "score", 0)]),
             max_score |-> SumOver(at(d), [i \in at(d) |->
                                              Get(feedback_data[i], "max_score", 0)])]
    IN [easy |-> bucket("easy"), medium |-> bucket("medium"), hard |-> bucket("hard")]

\* "\n".join(suggestions), kept as the lines of the joined text: an item that
\* begins with a newline contributes an empty line before its text.
RECURSIVE JoinLines(_)
JoinLines(items) ==
    IF items = <<>> THEN <<>>
    ELSE (IF Head(items)[1] = "\n" THEN << <<"">>, Tail(Head(items)) >>
          ELSE <<Head(items)>>) \o JoinLines(Tail(items))

\* Mutant of RequestRejection: the check for empty answers left out.
RequestRejection_NoBlankCheck(quiz_data, user_answers) ==
    IF user_answers = <<>> THEN "no_answers"
    ELSE IF Len(user_answers) # Len(quiz_data) THEN "count_mismatch"
    ELSE "none"

\* "Validate user answers", "Check for empty answers": why the request is
\* answered 400, or "none".
RequestRejection(quiz_data, user_answers) ==
    IF user_answers = <<>> THEN "no_answers"
    ELSE IF Len(user_answers) # Len(quiz_data) THEN "count_mismatch"
    ELSE IF \E i \in 1..Len(user_answers) : Strip(user_answers[i]) = <<>>
         THEN "blank_answer"
    ELSE "none"

\* POST /quiz/evaluate by user_id for quiz_id with user_answers.  saved tells
\* whether crud.create_submission commits or raises; adv whether the database
\* clock has moved on since the last insert.
evaluate_quiz(user_id, quiz_id, user_answers, saved, adv) ==
    /\ subReq' = [user_id |-> user_id, quiz_id |-> quiz_id, user_answers |-> user_answers]
    /\ IF quiz_id \notin 1..Len(quizzes)
       THEN /\ subOut' = [code |-> 404, detail |-> "not_found"]
            /\ UNCHANGED <<submissions, now>>
       ELSE
       \E quiz_data \in {quizzes[quiz_id].questions} :
       \E rejection \in {RequestRejection(quiz_data, user_answers)} :
          IF rejection # "none"
          THEN /\ subOut' = [code |-> 400, detail |-> rejection]
               /\ UNCHANGED <<submissions, now>>
          ELSE
          \E eval_result \in {evaluate_quiz_ai(quiz_data, user_answers)} :
          IF eval_result.kind = "error"
          THEN /\ subOut' = [code |-> 500, detail |-> "evaluation"]
               /\ UNCHANGED <<submissions, now>>
          ELSE IF \E i \in 1..Len(quiz_data) : ~IsDict(quiz_data[i])
          THEN \* question.get(...) raises inside the handler's try block
               /\ subOut' = [code |-> 500, detail |-> "unexpected"]
               /\ UNCHANGED <<submissions, now>>
          ELSE
          \E feedback_data \in {eval_result.feedback},
             suggestions \in {JoinLines(eval_result.suggestions)},
             percentage \in {Percentage(eval_result.total_score, eval_result.max_score)} :
          \E submission_payload \in
                 {[quiz_id |-> quiz_id,
                   user_id |-> user_id,
                   total_score |-> eval_result.total_score,
                   max_score |-> eval_result.max_score,
                   answers_json |-> json_dumps(user_answers),
                   feedback_json |-> json_dumps(feedback_data),
                   suggestions |-> suggestions,
                   performance_metrics |->
                       json_dumps(performance_metrics(quiz_data, feedback_data))]} :
             /\ IF saved
                THEN /\ now' = now + adv
                     /\ submissions' = create_submission(submissions,
                                                         submission_payload, now')
                ELSE \* "Continue with evaluation even if saving fails"
                     UNCHANGED <<submissions, now>>
             /\ subOut' = [code |-> 200,
                           status |-> "success",
                           submission_id |-> IF saved THEN Len(submissions') ELSE 0,
                           total_score |-> submission_payload.total_score,
                           max_score |-> submission_payload.max_score,
                           percentage |-> percentage,
                           feedback |-> feedback_data,
                           suggestions |-> suggestions,
                           correct_answers |-> eval_result.correct_answers,
                           total_questions |-> Len(quiz_data)]
    /\ UNCHANGED <<quizzes, plan, genVars, evalVars, board, pageVars>>

----------------------------------------------------------------------------
(* Evaluation requests against two stored quizzes *)

MaxEvals == 2       \* submissions stored through /quiz/evaluate

\* A question the validation of provider documents accepts and the grader
\* cannot grade: no option starts with "A)" and the first option is empty.
UngradableQuestion ==
    [ProviderEasy EXCEPT !.correct_option = <<"A">>,
                         !.options = << <<>>, <<"B", ")", " ", "y">>,
                                        <<"C", ")", " ", "z">>, <<"D", ")", " ", "w">> >>]

\* Quiz 1: two provider questions padded to five; quiz 2: starts with the
\* question that cannot be graded.
StoredQuestions(first) ==
    PadTruncate(first, MinQuestions, DefaultPoints.medium)

SubmitQuizTable ==
    create_quiz(
        create_quiz(<<>>, "alice",
            [StoredPayload(<<"A", "b">>) EXCEPT
                !.questions = StoredQuestions(
                    <<[ProviderHard EXCEPT !.correct_option = <<"A">>], ProviderEasy>>)]),
        "bob",
        [StoredPayload(<<"b">>) EXCEPT
            !.questions = StoredQuestions(<<UngradableQuestion>>)])

\* Answer lists sent: none, one too few, all right for quiz 1, all "B", one
\* blank among right ones.
SubmitAnswerLists ==
    {<<>>,
     << <<"a">>, <<"B">>, <<"a">>, <<"a">> >>,
     << <<"a">>, <<"B">>, <<"a">>, <<"a">>, <<"a">> >>,
     << <<"B">>, <<"B">>, <<"B">>, <<"B">>, <<"B">> >>,
     << <<"a">>, <<"B">>, <<" ">>, <<"a">>, <<"a">> >>}

InitSubmit ==
    /\ quizzes = SubmitQuizTable
    /\ submissions = <<>>
    /\ now = 0
    /\ plan = NoPlan
    /\ IdleGen
    /\ IdleEval
    /\ IdleRoutes

EvaluateRoute ==
    /\ Len(submissions) < MaxEvals
    /\ \E u \in Users, id \in 1..(Len(quizzes) + 1), ua \in SubmitAnswerLists,
          saved \in BOOLEAN, adv \in {0, 1} :
            evaluate_quiz(u, id, ua, saved, adv)

NextSubmit == EvaluateRoute

SpecSubmit == InitSubmit /\ [][NextSubmit]_vars

----------------------------------------------------------------------------
(* Leaderboard Ranker: crud.get_leaderboard_data and the /quiz/leaderboard route *)

\* Rows of the join Submission -> Quiz that pass the filters; grade 0 stands for
\* no grade given, the empty subject for none given.
BoardMatching(qs, subs, grade, subject) ==
    {i \in 1..Len(subs) :
        /\ subs[i].quiz_id \in 1..Len(qs)
        /\ grade # 0 => qs[subs[i].quiz_id].grade = grade
        /\ subject # <<>> => ILike(qs[subs[i].quiz_id].subject, SubjectPattern(subject))}

\* Mutant of OrderKey: max_score is no sort key.
OrderKey_NoMaxScore(row) == <<row.total_score, row.created_at, row.created_at>>

\* order_by(total_score.desc(), max_score.desc(), created_at.desc())
OrderKey(row) == <<row.total_score, row.max_score, row.created_at>>

\* Key a is sorted after key b or equal to it by no column.
KeyBelow(a, b) ==
    \/ a[1] < b[1]
    \/ a[1] = b[1] /\ a[2] < b[2]
    \/ a[1] = b[1] /\ a[2] = b[2] /\ a[3] < b[3]

\* The orders the database may return the rows S in: descending by key, rows of
\* equal keys in any order.
RECURSIVE Orderings(_, _)
Orderings(subs, S) ==
    IF S = {} THEN {<<>>}
    ELSE UNION {{<<m>> \o rest : rest \in Orderings(subs, S \ {m})} :
                   m \in {x \in S : \A y \in S :
                              ~KeyBelow(OrderKey(subs[x]), OrderKey(subs[y]))}}

\* query.limit(limit).all(): the row ids in result order, for each order the
\* database may choose.
get_leaderboard_data(qs, subs, grade, subject, limit) ==
    {SubSeq(o, 1, Min(limit, Len(o))) :
        o \in Orderings(subs, BoardMatching(qs, subs, grade, subject))}

\* round(total_score / max_score * 100, 1) in tenths of a percent, 0.0 when
\* max_score is not positive.
BoardPercentage(total_score, max_score) ==
    IF max_score > 0 THEN (2 * total_score * 1000 + max_score) \div (2 * max_score)
    ELSE 0

\* "entries" of the response: one per item, ranked by position.
BoardEntries(qs, subs, items) ==
    [idx \in 1..Len(items) |->
        [rank |-> idx,
         user_id |-> subs[items[idx]].user_id,
         score |-> subs[items[idx]].total_score,
         max_score |-> subs[items[idx]].max_score,
         percentage |-> BoardPercentage(subs[items[idx]].total_score,
                                        subs[items[idx]].max_score),
         subject |-> qs[subs[items[idx]].quiz_id].subject,
         grade |-> qs[subs[items[idx]].quiz_id].grade,
         date |-> subs[items[idx]].created_at]]

\* GET /quiz/leaderboard
get_leaderboard(grade, subject, limit) ==
    /\ \E items \in get_leaderboard_data(quizzes, submissions, grade, subject, limit) :
          board' = [called |-> TRUE, grade |-> grade, subject |-> subject,
                    limit |-> limit, items |-> items,
                    entries |-> BoardEntries(quizzes, submissions, items)]
    /\ UNCHANGED <<dbVars, plan, genVars, evalVars, subVars, pageVars>>

----------------------------------------------------------------------------
(* Leaderboard requests over stored submissions of two quizzes *)

MaxBoardSubs == 3   \* submissions stored in the leaderboard specification

\* Quiz 1 of grade 5 with subject "Ab", quiz 2 of grade 6 with subject "b".
BoardQuizTable ==
    create_quiz(create_quiz(<<>>, "alice", StoredPayload(<<"A", "b">>)),
                "bob", [StoredPayload(<<"b">>) EXCEPT !.grade = 6])

\* Submissions stored: 80/100 and 80/120 on quiz 1, 90/100 on quiz 2.
BoardPayloads ==
    {[quiz_id |-> 1, user_id |-> "alice", total_score |-> 80, max_score |-> 100] @@ NoTexts,
     [quiz_id |-> 1, user_id |-> "bob", total_score |-> 80, max_score |-> 120] @@ NoTexts,
     [quiz_id |-> 2, user_id |-> "bob", total_score |-> 90, max_score |-> 100] @@ NoTexts}

BoardGrades == {0, 5}

BoardSubjects == {<<>>, <<"a">>, <<"_">>}

BoardLimits == {1, 2}

InitBoard ==
    /\ quizzes = BoardQuizTable
    /\ submissions = <<>>
    /\ now = 0
    /\ plan = NoPlan
    /\ IdleGen
    /\ IdleEval
    /\ IdleRoutes

\* crud.create_submission; func.now() may return the timestamp of the previous
\* insert again.
StoreBoardSubmission ==
    /\ Len(submissions) < MaxBoardSubs
    /\ \E payload \in BoardPayloads, adv \in {0, 1} :
          /\ now' = now + adv
          /\ submissions' = create_submission(submissions, payload, now')
    /\ board' = NoBoard
    /\ UNCHANGED <<quizzes, plan, genVars, evalVars, subVars, pageVars>>

LeaderboardRequest ==
    \E grade \in BoardGrades, subject \in BoardSubjects, limit \in BoardLimits :
        get_leaderboard(grade, subject, limit)

NextBoard == StoreBoardSubmission \/ LeaderboardRequest

SpecBoard == InitBoard /\ [][NextBoard]_vars

----------------------------------------------------------------------------
(* Submission history: crud.get_submissions_by_filters and /quiz/history *)

\* An absent query parameter: None for a number or a date, as the names
\* (user_id "") and subjects (<<>>) have their own.
None == -1

\* Rows of the join Submission -> Quiz that pass every filter present. Dates
\* are days of the database clock: from_date is the start of its day, to_date
\* the end.
HistoryMatching(qs, subs, filters) ==
    {i \in 1..Len(subs) :
        /\ subs[i].quiz_id \in 1..Len(qs)
        /\ filters.user_id # "" => subs[i].user_id = filters.user_id
        /\ filters.grade # None => qs[subs[i].quiz_id].grade = filters.grade
        /\ Strip(filters.subject) # <<>> =>
              ILike(qs[subs[i].quiz_id].subject, SubjectPattern(Strip(filters.subject)))
        /\ filters.min_marks # None => subs[i].total_score >= filters.min_marks
        /\ filters.max_marks # None => subs[i].total_score <= filters.max_marks
        /\ filters.from_date # None => subs[i].created_at >= filters.from_date
        /\ filters.to_date # None => subs[i].created_at <= filters.to_date}

\* order_by(created_at.desc()): the orders the database may return the rows S
\* in, rows of equal created_at in any order.
RECURSIVE NewestFirst(_, _)
NewestFirst(subs, S) ==
    IF S = {} THEN {<<>>}
    ELSE UNION {{<<m>> \o rest : rest \in NewestFirst(subs, S \ {m})} :
                   m \in {x \in S : \A y \in S : subs[x].created_at >= subs[y].created_at}}

\* (total, items): the count before pagination and the page, as row ids.
get_submissions_by_filters(qs, subs, filters) ==
    LET M == HistoryMatching(qs, subs, filters)
        offset == Max(0, filters.offset)
        limit == Min(100, Max(1, filters.limit))
    IN {[total |-> Cardinality(M),
         items |-> SubSeq(o, offset + 1, Min(Len(o), offset + limit))] :
            o \in NewestFirst(subs, M)}

\* json.loads of a text json.dumps wrote.
json_loads(text) == text[2]

\* One entry of "results".
HistoryEntry(qs, sub) ==
    [id |-> sub.id,
     quiz_id |-> sub.quiz_id,
     user_id |-> sub.user_id,
     total_score |-> sub.total_score,
     max_score |-> sub.max_score,
     percentage |-> IF sub.max_score > 0 THEN Percentage(sub.total_score, sub.max_score)
                    ELSE None,
     answers |-> json_loads(sub.answers_json),
     feedback |-> json_loads(sub.feedback_json),
     suggestions |-> sub.suggestions,       \* split("\n") of the joined lines
     created_at |-> sub.created_at,
     quiz |-> [subject |-> qs[sub.quiz_id].subject,
               grade |-> qs[sub.quiz_id].grade,
               difficulty |-> qs[sub.quiz_id].difficulty,
               total_questions |-> qs[sub.quiz_id].total_questions]]

\* user_id = user_id or current_user
EffectiveUser(user_id, current_user) ==
    IF user_id # "" THEN user_id ELSE current_user

\* GET /quiz/history by the authenticated current_user. The 400 raised for an
\* inverted date or score range is raised inside the handler's try block and
\* leaves as 500.
quiz_history(current_user, req) ==
    /\ IF \/ req.from_date # None /\ req.to_date # None /\ req.from_date > req.to_date
          \/ req.min_marks # None /\ req.max_marks # None /\ req.min_marks > req.max_marks
       THEN history' = [called |-> TRUE, current_user |-> current_user, req |-> req,
                        code |-> 500]
       ELSE \E found \in get_submissions_by_filters(quizzes, submissions,
                             [req EXCEPT !.user_id = EffectiveUser(req.user_id, current_user)]) :
               history' = [called |-> TRUE, current_user |-> current_user, req |-> req,
                           code |-> 200,
                           total |-> found.total,
                           count |-> Len(found.items),
                           results |-> [k \in 1..Len(found.items) |->
                                           HistoryEntry(quizzes, submissions[found.items[k]])]]
    /\ UNCHANGED <<dbVars, plan, genVars, evalVars, subVars, board, nextDiff, session>>

----------------------------------------------------------------------------
(* History requests over the stored submissions of two users *)

MaxPageSubs == 2    \* submissions stored in the history specification

\* alice scored 8/10 on quiz 1 (grade 5, subject "Ab"), bob 3/10 on quiz 2
\* (grade 6, subject "b").
PagePayloads ==
    {[quiz_id |-> 1, user_id |-> "alice", total_score |-> 8, max_score |-> 10] @@ NoTexts,
     [quiz_id |-> 2, user_id |-> "bob", total_score |-> 3, max_score |-> 10] @@ NoTexts}

\* The request without any parameter, two per page.
PlainHistory ==
    [user_id |-> "", grade |-> None, subject |-> <<>>, min_marks |-> None,
     max_marks |-> None, from_date |-> None, to_date |-> None, limit |-> 2, offset |-> 0]

\* One filter at a time, an inverted score range, an inverted date range, the
\* second page of one; each with no user_id, with alice and with bob.
HistoryRequests ==
    {[r EXCEPT !.user_id = u] :
        u \in {""} \cup Users,
        r \in {PlainHistory,
               [PlainHistory EXCEPT !.grade = 5],
               [PlainHistory EXCEPT !.subject = <<" ", "a">>],
               [PlainHistory EXCEPT !.min_marks = 5],
               [PlainHistory EXCEPT !.max_marks = 5],
               [PlainHistory EXCEPT !.min_marks = 5, !.max_marks = 3],
               [PlainHistory EXCEPT !.from_date = 1],
               [PlainHistory EXCEPT !.to_date = 0],
               [PlainHistory EXCEPT !.from_date = 1, !.to_date = 0],
               [PlainHistory EXCEPT !.limit = 1, !.offset = 1]}}

InitPage ==
    /\ quizzes = BoardQuizTable
    /\ submissions = <<>>
    /\ now = 0
    /\ plan = NoPlan
    /\ IdleGen
    /\ IdleEval
    /\ IdleRoutes

\* crud.create_submission
StorePageSubmission ==
    /\ Len(submissions) < MaxPageSubs
    /\ \E payload \in PagePayloads, adv \in {0, 1} :
          /\ now' = now + adv
          /\ submissions' = create_submission(submissions, payload, now')
    /\ history' = NoHistory
    /\ UNCHANGED <<quizzes, plan, genVars, evalVars, subVars, board, nextDiff, session>>

HistoryRequest ==
    \E current_user \in Users, req \in HistoryRequests : quiz_history(current_user, req)

NextHistory == StorePageSubmission \/ HistoryRequest

SpecHistory == InitPage /\ [][NextHistory]_vars

----------------------------------------------------------------------------
(* Adaptive difficulty: crud.get_latest_score_for_user, suggest_difficulty_ai
   and /quiz/next_difficulty *)

\* The values query.order_by(created_at.desc()).first() may give, as
\* submission.total_score; {None} for a user without submissions. Among rows of
\* equal created_at the database may return any.
get_latest_score_for_user(subs, user_id) ==
    LET own == {i \in 1..Len(subs) : subs[i].user_id = user_id}
    IN IF own = {} THEN {None}
       ELSE {subs[i].total_score :
                i \in {x \in own : \A y \in own : subs[x].created_at >= subs[y].created_at}}

suggest_difficulty_ai(previous_score) ==
    IF previous_score >= 80 THEN "HARD"
    ELSE IF previous_score >= 50 THEN "MEDIUM"
    ELSE "EASY"

\* POST /quiz/next_difficulty by the authenticated current_user
get_next_difficulty(current_user, previous_score) ==
    /\ \E latest_percentage \in get_latest_score_for_user(submissions, current_user) :
          nextDiff' =
              [called |-> TRUE, current_user |-> current_user,
               req |-> [previous_score |-> previous_score],
               previous_score |-> IF latest_percentage = None THEN previous_score
                                  ELSE latest_percentage,
               next_difficulty |-> IF latest_percentage = None
                                   THEN suggest_difficulty_ai(previous_score)
                                   ELSE suggest_difficulty_ai(latest_percentage)]
    /\ UNCHANGED <<dbVars, plan, genVars, evalVars, subVars, board, history, session>>

----------------------------------------------------------------------------
(* Difficulty requests over the stored submissions of one user *)

MaxLevelSubs == 2   \* submissions stored in the difficulty specification

\* alice scored 9 of 10, 60 of 100, 80 of 100 and 85 of 200 on quiz 1; bob has
\* no submission.
LevelPayloads ==
    {[quiz_id |-> 1, user_id |-> "alice", total_score |-> sc[1], max_score |-> sc[2]]
         @@ NoTexts : sc \in {<<9, 10>>, <<60, 100>>, <<80, 100>>, <<85, 200>>}}

PreviousScores == {0, 49, 50, 79, 80, 100}

StoreLevelSubmission ==
    /\ Len(submissions) < MaxLevelSubs
    /\ \E payload \in LevelPayloads, adv \in {0, 1} :
          /\ now' = now + adv
          /\ submissions' = create_submission(submissions, payload, now')
    /\ nextDiff' = NoNextDiff
    /\ UNCHANGED <<quizzes, plan, genVars, evalVars, subVars, board, history, session>>

DifficultyRequest ==
    \E current_user \in Users, previous_score \in PreviousScores :
        get_next_difficulty(current_user, previous_score)

NextLevel == StoreLevelSubmission \/ DifficultyRequest

SpecLevel == InitPage /\ [][NextLevel]_vars

----------------------------------------------------------------------------
(* The quiz-taking page: streamlit_app/pages/3_Take_Quiz.py *)

\* 'result': None
NoResult == [status |-> "none"]

\* QuizManager.initialize_session_state with the quiz `quiz` put in place.
\* answers holds the indices of the questions with a selected option.
FreshSession(quiz) ==
    [loaded |-> TRUE,
     quiz |-> quiz,
     answers |-> {},
     current_question |-> 0,
     is_submitted |-> FALSE,
     result |-> NoResult]

\* The page shows a question and the navigation buttons: main reached
\* show_navigation_buttons.
Answering ==
    /\ session.loaded
    /\ ~session.is_submitted
    /\ session.quiz.n >= 1
    /\ session.current_question < session.quiz.n

\* 2_Generate_Quiz.py stores the new quiz and deletes quiz_state; the page then
\* initializes the state and _load_current_quiz takes the quiz.
LoadGenerated(quiz) ==
    /\ session' = FreshSession(quiz)
    /\ UNCHANGED <<dbVars, plan, genVars, evalVars, subVars, board, history, nextDiff>>

\* "Retake Quiz" on the history page, then _load_retake_quiz: the quiz is
\* replaced and the rest of quiz_state stays; on the rerun main shows the
\* result if is_submitted, else sets a current_question beyond the quiz to 0.
LoadRetake(quiz) ==
    /\ \E kept \in {IF session.loaded THEN session ELSE FreshSession(quiz)} :
          session' = [kept EXCEPT
                         !.quiz = quiz,
                         !.current_question =
                             IF ~kept.is_submitted /\ kept.current_question >= quiz.n
                             THEN 0 ELSE kept.current_question]
    /\ UNCHANGED <<dbVars, plan, genVars, evalVars, subVars, board, history, nextDiff>>

\* show_question: an option of the current question is selected.
SelectAnswer ==
    /\ Answering
    /\ session' = [session EXCEPT !.answers = @ \cup {session.current_question}]
    /\ UNCHANGED <<dbVars, plan, genVars, evalVars, subVars, board, history, nextDiff>>

\* "Previous"
NavPrevious ==
    /\ Answering
    /\ session.current_question > 0
    /\ session' = [session EXCEPT !.current_question = @ - 1]
    /\ UNCHANGED <<dbVars, plan, genVars, evalVars, subVars, board, history, nextDiff>>

\* if current_q < total_questions - 1
NextOffered == session.current_question < session.quiz.n - 1

\* "Next"
NavNext ==
    /\ Answering
    /\ NextOffered
    /\ session' = [session EXCEPT !.current_question = @ + 1]
    /\ UNCHANGED <<dbVars, plan, genVars, evalVars, subVars, board, history, nextDiff>>

\* "Restart"
NavRestart ==
    /\ Answering
    /\ session' = [session EXCEPT !.answers = {},
                                  !.current_question = 0,
                                  !.is_submitted = FALSE]
    /\ UNCHANGED <<dbVars, plan, genVars, evalVars, subVars, board, history, nextDiff>>

\* What api_client.evaluate_quiz may return: an error for any failure (a
\* question without a selected option is sent as "" and rejected), else the
\* response of /quiz/evaluate.
SubmitResults ==
    {[error |-> "failed"]}
    \cup (IF \A i \in 0..(session.quiz.n - 1) : i \in session.answers
          THEN {[status |-> "success", total_questions |-> session.quiz.n]}
          ELSE {})

\* "Submit Quiz": QuizManager.submit_quiz
NavSubmit ==
    /\ Answering
    /\ ~NextOffered
    /\ \E result \in SubmitResults :
          IF "error" \in DOMAIN result
          THEN session' = session
          ELSE session' = [session EXCEPT !.is_submitted = TRUE, !.result = result]
    /\ UNCHANGED <<dbVars, plan, genVars, evalVars, subVars, board, history, nextDiff>>

\* "Take Another Quiz" on the result view: quiz_state is deleted.
TakeAnother ==
    /\ session.loaded
    /\ session.is_submitted
    /\ session' = NoSession
    /\ UNCHANGED <<dbVars, plan, genVars, evalVars, subVars, board, history, nextDiff>>

----------------------------------------------------------------------------
(* One browser session taking quizzes of 1 to MaxSessionQ questions *)

MaxSessionQ == 4    \* questions of the longest quiz

SessionQuizzes == {[id |-> n, n |-> n] : n \in 1..MaxSessionQ}

LoadQuiz == \E quiz \in SessionQuizzes : LoadGenerated(quiz) \/ LoadRetake(quiz)

NextSession ==
    \/ LoadQuiz
    \/ SelectAnswer
    \/ NavPrevious
    \/ NavNext
    \/ NavRestart
    \/ NavSubmit
    \/ TakeAnother

SpecSession == Init /\ [][NextSession]_vars

----------------------------------------------------------------------------
(* Claims about the Distribution Planner *)

\* What a claim reads off the recorded planner call.
PlanScore == SumOver(plan.rows, [i \in plan.rows |-> submissions[i].total_score])
PlanMaxScore == SumOver(plan.rows, [i \in plan.rows |-> submissions[i].max_score])
PlanN == plan.total_questions
PlanHasHistory == plan.called /\ plan.rows # {}

Floor10(n, k) == (n * k) \div 10     \* floor(0.k * n)

\* C1: for every total_questions >= 1 and every history the returned mix
\* satisfies easy + medium + hard = total_questions.
C1_SumIsTotal ==
    plan.called => plan.mix.easy + plan.mix.medium + plan.mix.hard = PlanN

\* C5: with history and ratio > 0.8 the planner returns easy = max(1, floor(0.2 N)),
\* medium = floor(0.4 N), hard = N - easy - medium, for every N >= 1.
C5_HighBranch ==
    (PlanHasHistory /\ PlanMaxScore > 0 /\ 10 * PlanScore > 8 * PlanMaxScore)
        => /\ plan.mix.easy = Max(1, Floor10(PlanN, 2))
           /\ plan.mix.medium = Floor10(PlanN, 4)
           /\ plan.mix.hard = PlanN - plan.mix.easy - plan.mix.medium

\* C6: without a matching prior submission the planner returns easy = floor(0.5 N),
\* medium = floor(0.3 N), hard = N - easy - medium; N = 10 gives 5, 3, 2.
C6_NoHistory ==
    (plan.called /\ submissions = <<>>)
        => /\ plan.mix.easy = Floor10(PlanN, 5)
           /\ plan.mix.medium = Floor10(PlanN, 3)
           /\ plan.mix.hard = PlanN - plan.mix.easy - plan.mix.medium
           /\ (PlanN = 10 => plan.mix = [easy |-> 5, medium |-> 3, hard |-> 2])

C6_Witness ==
    /\ plan.called /\ submissions = <<>> /\ PlanN = 10
    /\ plan.mix = [easy |-> 5, medium |-> 3, hard |-> 2]

\* C7: with history, 0.5 < ratio <= 0.8 gives easy = medium = floor(0.4 N) and
\* ratio <= 0.5 (a zero sum of max scores counting as 0.5) gives easy = floor(0.6 N),
\* medium = floor(0.3 N); hard = N - easy - medium in both.
C7_Thresholds ==
    PlanHasHistory =>
        LET lowRatio == PlanMaxScore = 0 \/ 10 * PlanScore <= 5 * PlanMaxScore
            midRatio == ~lowRatio /\ 10 * PlanScore <= 8 * PlanMaxScore
            rest == PlanN - plan.mix.easy - plan.mix.medium
        IN /\ midRatio => /\ plan.mix.easy = Floor10(PlanN, 4)
                          /\ plan.mix.medium = Floor10(PlanN, 4)
                          /\ plan.mix.hard = rest
           /\ lowRatio => /\ plan.mix.easy = Floor10(PlanN, 6)
                          /\ plan.mix.medium = Floor10(PlanN, 3)
                          /\ plan.mix.hard = rest

\* A history whose ratio is exactly 0.8, planned for 10 questions.
C7_Witness ==
    /\ PlanHasHistory /\ PlanN = 10
    /\ PlanMaxScore > 0 /\ 10 * PlanScore = 8 * PlanMaxScore
    /\ plan.mix = [easy |-> 4, medium |-> 4, hard |-> 2]

\* C8: for every total_questions >= 1 and every history every field of the mix
\* is >= 0 and hard >= 1.
C8_FieldsInRange ==
    plan.called => /\ plan.mix.easy >= 0
                   /\ plan.mix.medium >= 0
                   /\ plan.mix.hard >= 1

\* The smallest quiz planned for a learner who is doing well.
C8_Witness ==
    /\ PlanHasHistory /\ PlanN = 1
    /\ 10 * PlanScore > 8 * PlanMaxScore
    /\ plan.mix.hard = 1

\* s contains sub, letter case disregarded
ContainsNoCase(s, sub) ==
    \E k \in 0..(Len(s) - Len(sub)) :
        \A j \in 1..Len(sub) : Lower(s[k + j]) = Lower(sub[j])

\* The submissions with ids in rows, in their stored order, renumbered.
RECURSIVE KeepRows(_, _)
KeepRows(subs, rows) ==
    IF subs = <<>> THEN <<>>
    ELSE LET front == KeepRows(SubSeq(subs, 1, Len(subs) - 1), rows)
             last == subs[Len(subs)]
         IN IF Len(subs) \in rows
            THEN Append(front, [last EXCEPT !.id = Len(front) + 1])
            ELSE front

\* The stored submissions of the planning learner whose quiz subject contains the
\* requested subject.
PlanMatching ==
    {i \in 1..Len(submissions) :
        /\ submissions[i].user_id = plan.user_id
        /\ ContainsNoCase(quizzes[submissions[i].quiz_id].subject, plan.subject)}

\* C9: the mix for (user, subject, N) depends only on the at most 3 most recent
\* submissions of that user whose quiz subject contains the requested subject,
\* case-insensitively: the rows the planner read are such submissions, none newer
\* was left out, and a database holding only them gives the same mix.
C9_OnlyRecentOwnMatching ==
    plan.called =>
        /\ plan.rows \subseteq PlanMatching
        /\ Cardinality(plan.rows) = Min(3, Cardinality(PlanMatching))
        /\ \A i \in plan.rows : \A j \in PlanMatching \ plan.rows :
              submissions[i].created_at >= submissions[j].created_at
        /\ LET kept == KeepRows(submissions, plan.rows)
           IN \A sel \in RecentSelections(quizzes, kept, plan.user_id, plan.subject) :
                 Distribution(kept, sel, PlanN) = plan.mix

\* The same statement for requested subjects that hold no LIKE wildcard.
C9_ForPlainSubjects ==
    (\A j \in 1..Len(plan.subject) : plan.subject[j] \notin {"_", "%"})
        => C9_OnlyRecentOwnMatching

----------------------------------------------------------------------------
(* Claims about the Content Requester and the generate operation *)

GenFinished == genPc \in {"done", "failed"}

AllAttemptsFailed ==
    /\ Len(outcomes) > 0
    /\ \A i \in 1..Len(outcomes) : outcomes[i] # "valid"

\* C2: when every provider attempt fails, generate_quiz_ai does not raise: it
\* returns a quiz of exactly the requested length and the request succeeds.
C2_FailureNeverSurfaces ==
    (GenFinished /\ AllAttemptsFailed)
        => /\ genData.state = "returned"
           /\ Len(genData.questions) = genReq.total_questions
           /\ genPc = "done"

\* C3: whatever the length of the accepted provider document, the question list
\* returned and stored has exactly total_questions entries: the first
\* total_questions provider questions in order, then placeholders of difficulty
\* medium carrying the medium points of the request.
C3_ExactlyTotalQuestions ==
    genPc = "done" =>
        LET n == genReq.total_questions
            got == genData.questions
            qs == genOut.questions
        IN /\ Len(qs) = n
           /\ quizzes[genOut.quiz_id].questions = qs
           /\ \A i \in 1..Len(qs) :
                 IF i <= Len(got)
                 THEN qs[i] = got[i]
                 ELSE /\ qs[i].difficulty = "medium"
                      /\ qs[i].points = genReq.points_strategy.medium
                      /\ qs[i].question[1] = "Additional question"

\* A document of 3 questions for a request of 5, padded with 2 placeholders.
C3_Witness ==
    /\ genPc = "done"
    /\ Len(genData.questions) = 3
    /\ genReq.total_questions = 5
    /\ Len(genOut.questions) = 5
    /\ genOut.questions[5].difficulty = "medium"

\* C4: within one request the provider is invoked at most 2 times; the second
\* invocation follows a failed first one; a valid response ends the invocations
\* and is returned; the retry budget is left as exhausted (the spec's Fallback
\* transition) only after both attempts failed.
C4_AtMostTwoSequentialAttempts ==
    /\ Len(outcomes) <= 2
    /\ \A i \in 1..Len(outcomes) :
          outcomes[i] = "valid" => (i = Len(outcomes) /\ genData.state = "returned")
    /\ genData.state = "returned" => outcomes[Len(outcomes)] = "valid"
    /\ genData.state = "raised" => (Len(outcomes) = 2 /\ AllAttemptsFailed)

\* A first attempt that failed, followed by a second one whose document is returned.
C4_Witness ==
    /\ genPc = "done"
    /\ Len(outcomes) = 2
    /\ outcomes[1] # "valid"
    /\ outcomes[2] = "valid"

----------------------------------------------------------------------------
(* Claims about the Grader *)

Capitals == [a |-> "A", b |-> "B", c |-> "C", d |-> "D",
             w |-> "W", x |-> "X", y |-> "Y", z |-> "Z"]

CapitalOf(c) == IF c \in DOMAIN Capitals THEN Capitals[c] ELSE c

\* First character of the trimmed, upper-cased answer; blank if there is none.
FirstLetter(ans) ==
    LET t == Strip(ans) IN IF t = <<>> THEN <<>> ELSE <<CapitalOf(t[1])>>

\* The letter of the option named by the question's correct_option (compared
\* without regard to case), else of the first option, else blank.
KeyLetter(q0) ==
    LET q == AsDict(q0, 0)
        opts == Get(q, "options", <<>>)
        co == Strip(Get(q, "correct_option", <<>>))
        named == {k \in 1..Len(opts) :
                     /\ Len(opts[k]) > Len(co)
                     /\ opts[k][Len(co) + 1] = ")"
                     /\ \A j \in 1..Len(co) : CapitalOf(opts[k][j]) = CapitalOf(co[j])}
    IN IF named # {}
       THEN <<CapitalOf(opts[CHOOSE k \in named : \A j \in named : k <= j][1])>>
       ELSE IF opts # <<>> THEN <<CapitalOf(opts[1][1])>> ELSE <<>>

Graded == evalOut # NoEvalOut /\ evalOut.kind = "result"

CorrectPositions ==
    {i \in 1..Len(evalIn.quiz_data) :
        FirstLetter(evalIn.user_answers[i]) = KeyLetter(evalIn.quiz_data[i])}

\* C11: question i is marked correct iff the first character of the trimmed,
\* upper-cased i-th answer equals the letter of the option matching the
\* question's correct_option; every correct answer adds the question's marks to
\* total_score and 1 to correct_answers; answers "a","B" to questions with correct
\* options "A","B" score total_score = max_score.
C11_CorrectIffLetterMatches ==
    Graded =>
        /\ \A i \in 1..Len(evalIn.quiz_data) :
              /\ evalOut.feedback[i].is_correct <=> i \in CorrectPositions
              /\ evalOut.feedback[i].marks_awarded =
                    IF i \in CorrectPositions
                    THEN QuestionMarks(AsDict(evalIn.quiz_data[i], i)) ELSE 0
        /\ evalOut.total_score =
              SumOver(CorrectPositions,
                      [i \in CorrectPositions |->
                          QuestionMarks(AsDict(evalIn.quiz_data[i], i))])
        /\ evalOut.correct_answers = Cardinality(CorrectPositions)
        /\ (/\ Len(evalIn.quiz_data) = 2
            /\ Get(evalIn.quiz_data[1], "correct_option", <<>>) = <<"A">>
            /\ Get(evalIn.quiz_data[2], "correct_option", <<>>) = <<"B">>
            /\ \A i \in 1..2 : Get(evalIn.quiz_data[i], "options", <<>>) = StdOptions
            /\ evalIn.user_answers = << <<"a">>, <<"B">> >>)
           => evalOut.total_score = evalOut.max_score

\* Answers "a","B" to two questions with correct options "A","B": both correct.
C11_Witness ==
    /\ Graded
    /\ evalIn.quiz_data = <<[ProviderHard EXCEPT !.correct_option = <<"A">>], ProviderEasy>>
    /\ evalIn.user_answers = << <<"a">>, <<"B">> >>
    /\ evalOut.correct_answers = 2
    /\ evalOut.total_score = 4
    /\ evalOut.max_score = 4

\* C12: in every evaluation result the sum of marks_awarded over the feedback
\* entries is at most the sum of max_marks, and percentage (kept in hundredths)
\* lies in 0..100.
C12_ScoreWithinMax ==
    Graded =>
        /\ SeqSum([i \in 1..Len(evalOut.feedback) |-> evalOut.feedback[i].marks_awarded])
              <= SeqSum([i \in 1..Len(evalOut.feedback) |-> evalOut.feedback[i].max_marks])
        /\ evalOut.percentage >= 0
        /\ evalOut.percentage <= 100 * 100

\* The same for question lists whose marks are all zero or more.
C12_ForNonNegativeMarks ==
    (\A i \in 1..Len(evalIn.quiz_data) : QuestionMarks(AsDict(evalIn.quiz_data[i], i)) >= 0)
        => C12_ScoreWithinMax

WrongPositions == (1..Len(evalIn.quiz_data)) \ CorrectPositions

TopicOf(i) == Get(AsDict(evalIn.quiz_data[i], i), "topic", "General")

\* The "- <topic>: <count> incorrect answer(s)" lines of the suggestions.
BreakdownLines ==
    {k \in 1..Len(evalOut.suggestions) : evalOut.suggestions[k][1] = "-"}

\* C13: the suggestions begin with the celebratory message iff every answer is
\* correct; otherwise they hold the summary line with correct_answers out of the
\* number of questions and one breakdown line per topic of a wrongly answered
\* question (topic "General" where the question names none) whose count is the
\* number of wrong answers of that topic, so the counts add up to the number of
\* wrong answers; two questions both answered wrongly give correct_answers = 0
\* and a breakdown line with count 2.
C13_Suggestions ==
    Graded =>
        /\ evalOut.suggestions[1][1] = "Perfect score!" <=> WrongPositions = {}
        /\ WrongPositions # {} =>
              /\ evalOut.suggestions[1] =
                    <<"You scored", Cardinality(CorrectPositions), "out of",
                      Len(evalIn.quiz_data)>>
              /\ \A i \in WrongPositions :
                    \E k \in BreakdownLines :
                        /\ evalOut.suggestions[k][2] = TopicOf(i)
                        /\ evalOut.suggestions[k][3] =
                              Cardinality({j \in WrongPositions : TopicOf(j) = TopicOf(i)})
              /\ Cardinality(BreakdownLines) =
                    Cardinality({TopicOf(i) : i \in WrongPositions})
              /\ SumOver(BreakdownLines,
                         [k \in BreakdownLines |-> evalOut.suggestions[k][3]])
                    = Cardinality(WrongPositions)
        /\ (/\ Len(evalIn.quiz_data) = 2
            /\ WrongPositions = {1, 2}
            /\ TopicOf(1) = TopicOf(2))
           => /\ evalOut.correct_answers = 0
              /\ \E k \in BreakdownLines : evalOut.suggestions[k][3] = 2

\* Answers "B","a" to two questions with correct options "A","B": none correct,
\* one breakdown line "General" with count 2.
C13_Witness ==
    /\ Graded
    /\ evalIn.quiz_data = <<[ProviderHard EXCEPT !.correct_option = <<"A">>], ProviderEasy>>
    /\ evalIn.user_answers = << <<"B">>, <<"a">> >>
    /\ evalOut.correct_answers = 0
    /\ evalOut.suggestions[4] = <<"-", "General", 2>>

C14_InputsUntouched == [][evalIn' = evalIn]_vars

----------------------------------------------------------------------------
(* Claims about the evaluate operation *)

IsBlank(ans) == \A j \in 1..Len(ans) : ans[j] = " "

\* The request names a stored quiz and is one the operation must reject: no
\* answers, a number of answers other than the number of questions, a blank
\* answer, or a question list the grader fails on.
MustReject(req) ==
    /\ req.quiz_id \in 1..Len(quizzes)
    /\ \/ req.user_answers = <<>>
       \/ Len(req.user_answers) # Len(quizzes[req.quiz_id].questions)
       \/ \E i \in 1..Len(req.user_answers) : IsBlank(req.user_answers[i])
       \/ evaluate_quiz_ai(quizzes[req.quiz_id].questions, req.user_answers).kind
             = "error"

\* C15: a rejected evaluation request (no answers, wrong number of answers, a
\* blank answer, a grader failure) creates no submission record, leaves the
\* stored quizzes and submissions as they were, and is answered with an error
\* that carries no part of a result.
C15_RejectedLeavesNoRecord ==
    [][MustReject(subReq') =>
          /\ submissions' = submissions
          /\ quizzes' = quizzes
          /\ subOut'.code \in {400, 500}
          /\ DOMAIN subOut' = {"code", "detail"}]_vars

\* With one submission stored, a request with a blank answer has been rejected.
C15_Witness ==
    /\ Len(submissions) = 1
    /\ subOut.code = 400
    /\ subOut.detail = "blank_answer"
    /\ \E i \in 1..Len(subReq.user_answers) : IsBlank(subReq.user_answers[i])

\* C16: every evaluation answered with success adds exactly one submission
\* record, for the request's quiz and user, and leaves every submission stored
\* before and every quiz as it was.
C16_OneRecordPerSuccess ==
    [][subOut'.code = 200 =>
          /\ Len(submissions') = Len(submissions) + 1
          /\ SubSeq(submissions', 1, Len(submissions)) = submissions
          /\ submissions'[Len(submissions')].quiz_id = subReq'.quiz_id
          /\ submissions'[Len(submissions')].user_id = subReq'.user_id
          /\ quizzes' = quizzes]_vars

\* The same for the evaluations whose submission was committed.
C16_WhenStored ==
    [][(subOut'.code = 200 /\ Len(submissions') # Len(submissions)) =>
          /\ Len(submissions') = Len(submissions) + 1
          /\ SubSeq(submissions', 1, Len(submissions)) = submissions
          /\ submissions'[Len(submissions')].quiz_id = subReq'.quiz_id
          /\ submissions'[Len(submissions')].user_id = subReq'.user_id
          /\ subOut'.submission_id = Len(submissions')
          /\ quizzes' = quizzes]_vars

\* Two evaluations of quiz 1 by alice, stored as two records.
C16_TwoRecords ==
    /\ Len(submissions) = 2
    /\ \A i \in 1..2 : submissions[i].quiz_id = 1 /\ submissions[i].user_id = "alice"

----------------------------------------------------------------------------
(* Claims about the Leaderboard Ranker *)

\* The sort columns of a leaderboard entry.
EntryKey(e) == <<e.score, e.max_score, e.date>>

\* C17: the leaderboard lists its entries by descending total_score, then
\* descending max_score, then descending created_at: of two entries at ranks
\* i < j, the key (score, max_score, created_at) of j is never above that of i.
C17_OrderedByScoreMaxDate ==
    board.called =>
        \A i \in 1..Len(board.entries) : \A j \in (i + 1)..Len(board.entries) :
            ~KeyBelow(EntryKey(board.entries[i]), EntryKey(board.entries[j]))

\* 80 of 120 is listed above a later 80 of 100.
C17_Witness ==
    /\ board.called
    /\ Len(board.entries) = 2
    /\ board.entries[1].score = 80 /\ board.entries[1].max_score = 120
    /\ board.entries[2].score = 80 /\ board.entries[2].max_score = 100
    /\ board.entries[2].date > board.entries[1].date

\* Of two submissions of 90 out of 100 the more recent is listed first.
C17_RecentFirst ==
    /\ board.called
    /\ Len(board.entries) = 2
    /\ \A k \in 1..2 : board.entries[k].score = 90 /\ board.entries[k].max_score = 100
    /\ board.entries[1].date > board.entries[2].date

\* The stored submissions of the requested grade (if one was given) whose quiz
\* subject contains the requested subject (if one was given), case disregarded.
BoardWanted ==
    {i \in 1..Len(submissions) :
        /\ board.grade # 0 => quizzes[submissions[i].quiz_id].grade = board.grade
        /\ ContainsNoCase(quizzes[submissions[i].quiz_id].subject, board.subject)}

\* C18: the leaderboard returns min(limit, number of submissions matching the
\* grade and subject filter) entries, each of them matches the filter, no
\* matching submission left out sorts above a returned one, and the ranks are
\* 1, 2, ..., k in list order.
C18_TopMatchingRanked ==
    board.called =>
        /\ Len(board.entries) = Min(board.limit, Cardinality(BoardWanted))
        /\ \A k \in 1..Len(board.entries) :
              /\ board.items[k] \in BoardWanted
              /\ board.grade # 0 => board.entries[k].grade = board.grade
              /\ ContainsNoCase(board.entries[k].subject, board.subject)
              /\ board.entries[k].rank = k
              /\ \A m \in BoardWanted :
                    (\A n \in 1..Len(board.items) : board.items[n] # m)
                        => ~KeyBelow(EntryKey(board.entries[k]), OrderKey(submissions[m]))
        /\ \A k \in 1..Len(board.items) : \A n \in 1..Len(board.items) :
              board.items[k] = board.items[n] => k = n

\* The same for requests whose subject holds no LIKE wildcard.
C18_ForPlainSubjects ==
    (board.called /\ \A j \in 1..Len(board.subject) : board.subject[j] \notin {"_", "%"})
        => C18_TopMatchingRanked

\* A request for grade 5 and subject "a" with limit 1: of two matching
\* submissions the better is returned, a higher score on the quiz of another
\* grade and subject is not.
C18_Truncated ==
    /\ board.called
    /\ board.grade = 5 /\ board.subject = <<"a">> /\ board.limit = 1
    /\ Cardinality(BoardWanted) = 2
    /\ Len(submissions) = 3
    /\ \E i \in 1..3 : submissions[i].quiz_id = 2 /\ submissions[i].total_score = 90
    /\ Len(board.entries) = 1
    /\ board.entries[1].rank = 1 /\ board.entries[1].score = 80

----------------------------------------------------------------------------
(* Claims about the questions of a generated quiz *)

\* q has the six fields, a correct_option among A-D and a difficulty among
\* easy, medium, hard.
HasRequiredShape(q) ==
    /\ {"question", "options", "correct_option", "difficulty", "points", "explanation"}
           \subseteq DOMAIN q
    /\ q.correct_option \in {<<"A">>, <<"B">>, <<"C">>, <<"D">>}
    /\ q.difficulty \in {"easy", "medium", "hard"}

\* C19: every question of a quiz returned by the generation operation, taken
\* from the accepted provider document or appended as a placeholder, has the six
\* required fields with correct_option in {A,B,C,D} and difficulty in
\* {easy,medium,hard}, and so has the quiz stored; a provider document with a
\* question violating any of these is never the accepted one.
C19_ReturnedQuestionsWellFormed ==
    /\ genData.state = "returned" =>
          \A i \in 1..Len(genData.questions) : HasRequiredShape(genData.questions[i])
    /\ genOut.status = 200 =>
          /\ \A i \in 1..Len(genOut.questions) : HasRequiredShape(genOut.questions[i])
          /\ \A i \in 1..Len(quizzes[genOut.quiz_id].questions) :
                HasRequiredShape(quizzes[genOut.quiz_id].questions[i])
    /\ \A i \in 1..Len(outcomes) :
          outcomes[i] = "invalid_question" => (genData.state = "returned" => i < Len(outcomes))

\* A document with a refused question on the first attempt, then an accepted
\* document of 2 questions returned with 3 placeholders after them.
C19_Witness ==
    /\ genPc = "done"
    /\ outcomes = <<"invalid_question", "valid">>
    /\ Len(genData.questions) = 2
    /\ genOut.status = 200
    /\ Len(genOut.questions) = 5
    /\ genOut.questions[1] = ProviderEasy
    /\ genOut.questions[5] = Placeholder(5, genReq.points_strategy.medium)

\* The number of questions of qs with difficulty d.
CountOf(qs, d) == Cardinality({i \in 1..Len(qs) : qs[i].difficulty = d})

\* C20: after all provider attempts failed a fallback quiz is returned that
\* holds exactly mix.easy easy, mix.medium medium and mix.hard hard questions,
\* each carrying the points of its difficulty from the points schedule and a
\* correct_option that names one of its options.
C20_FallbackFollowsMix ==
    (GenFinished /\ AllAttemptsFailed) =>
        /\ genOut.status = 200
        /\ \A d \in {"easy", "medium", "hard"} : CountOf(genOut.questions, d) = genDist[d]
        /\ \A i \in 1..Len(genOut.questions) :
              /\ genOut.questions[i].points
                     = genReq.points_strategy[genOut.questions[i].difficulty]
              /\ MatchingOption(genOut.questions[i].options,
                                genOut.questions[i].correct_option) # 0

----------------------------------------------------------------------------
(* Claims about the termination of a generation request *)

\* C21: every generation request eventually completes, even if the provider
\* never responds: a request waiting for the provider is eventually answered.
C21_EveryRequestCompletes == (genPc = "calling") ~> GenFinished

\* If every pending provider call returns (with a document or an error, a
\* timeout raised by the client library among them), the request completes.
C21_WhenProviderAnswers == WF_vars(Provider) => C21_EveryRequestCompletes

----------------------------------------------------------------------------
(* Claims about the performance metrics of a stored submission *)

\* The difficulty bucket of a stored question, unknown tags counted as medium.
BucketOf(q) ==
    IF LowerTag(Get(q, "difficulty", "medium")) \in {"easy", "hard"}
    THEN LowerTag(Get(q, "difficulty", "medium")) ELSE "medium"

\* The positions of the questions of submission k's quiz that fall in bucket d.
InBucket(k, d) ==
    {i \in 1..Len(quizzes[submissions[k].quiz_id].questions) :
        BucketOf(quizzes[submissions[k].quiz_id].questions[i]) = d}

\* The counts of the metrics of submission k: total and correct per bucket.
CountsRight(k) ==
    LET fb == submissions[k].feedback_json[2]
        m == submissions[k].performance_metrics[2]
    IN /\ \A d \in {"easy", "medium", "hard"} :
             /\ m[d].total = Cardinality(InBucket(k, d))
             /\ m[d].correct = Cardinality({i \in InBucket(k, d) : fb[i].is_correct})
       /\ m.easy.total + m.medium.total + m.hard.total = Len(fb)

\* The marks of the metrics of submission k: score and max_score per bucket.
MarksRight(k) ==
    LET fb == submissions[k].feedback_json[2]
        m == submissions[k].performance_metrics[2]
    IN /\ \A d \in {"easy", "medium", "hard"} :
             /\ m[d].score = SumOver(InBucket(k, d),
                                     [i \in InBucket(k, d) |-> fb[i].marks_awarded])
             /\ m[d].max_score = SumOver(InBucket(k, d),
                                         [i \in InBucket(k, d) |-> fb[i].max_marks])
       /\ m.easy.score + m.medium.score + m.hard.score = submissions[k].total_score

\* C22: in the performance metrics computed for a submission every difficulty
\* bucket holds total = number of questions of that difficulty, correct = number
\* of those answered correctly, score = sum of the marks awarded for them and
\* max_score = sum of their maximum marks; the totals sum to the question
\* count and the scores to the submission's total_score.
C22_MetricsPerBucket ==
    \A k \in 1..Len(submissions) : CountsRight(k) /\ MarksRight(k)

\* The counts alone.
C22_CountsPerBucket ==
    \A k \in 1..Len(submissions) : CountsRight(k)

\* A stored submission on quiz 1 with all five answers right.
C22_AllRight ==
    /\ Len(submissions) >= 1
    /\ submissions[1].quiz_id = 1
    /\ submissions[1].total_score = 10
    /\ submissions[1].performance_metrics[2].medium.correct = 3

----------------------------------------------------------------------------
(* Claims about the feedback entries *)

\* C23: the user_answer of each feedback entry is the raw answer submitted for
\* that question, unchanged in case and whitespace.
C23_RawAnswerKept ==
    Graded =>
        \A i \in 1..Len(evalOut.feedback) :
            evalOut.feedback[i].user_answer = evalIn.user_answers[i]

\* The entry holds the answer as the grader compared it: trimmed and in upper
\* case, whole and not cut to its first letter.
C23_NormalizedAnswerKept ==
    Graded =>
        \A i \in 1..Len(evalOut.feedback) :
            evalOut.feedback[i].user_answer =
                [k \in 1..Len(Strip(evalIn.user_answers[i])) |->
                    CapitalOf(Strip(evalIn.user_answers[i])[k])]

\* The answer " cx" is reported as "CX".
C23_Reported ==
    /\ Graded
    /\ Len(evalIn.user_answers) >= 1
    /\ evalIn.user_answers[1] = <<" ", "c", "x">>
    /\ evalOut.feedback[1].user_answer = <<"C", "X">>

----------------------------------------------------------------------------
(* Claims about questions none of whose options carries the correct letter *)

\* The options of q that start with "<correct_option>)", case disregarded.
NamedOptions(q) ==
    LET opts == Get(q, "options", <<>>)
        co == Strip(Get(q, "correct_option", <<>>))
    IN {k \in 1..Len(opts) :
           /\ Len(opts[k]) > Len(co)
           /\ opts[k][Len(co) + 1] = ")"
           /\ \A j \in 1..Len(co) : CapitalOf(opts[k][j]) = CapitalOf(co[j])}

\* q is a record with options of which none starts with "<correct_option>)".
NoOptionNamed(q) ==
    IsDict(q) /\ Get(q, "options", <<>>) # <<>> /\ NamedOptions(q) = {}

\* The request passed the checks of the route and reached the grader.
ReachedGrader ==
    /\ subReq # NoSubReq
    /\ subReq.quiz_id \in 1..Len(quizzes)
    /\ RequestRejection(quizzes[subReq.quiz_id].questions, subReq.user_answers) = "none"

\* C24: when no option of a question starts with "<correct_option>)", grading
\* still yields a result with an entry for every question, and the answer to
\* such a question is graded correct iff its first letter is the first
\* character of the first listed option.
C24_FirstOptionIsNominal ==
    ReachedGrader =>
        LET qs == quizzes[subReq.quiz_id].questions
        IN /\ subOut.code = 200
           /\ Len(subOut.feedback) = Len(qs)
           /\ \A i \in 1..Len(qs) :
                 NoOptionNamed(qs[i]) =>
                     (subOut.feedback[i].is_correct
                         <=> FirstLetter(subReq.user_answers[i])
                                 = <<CapitalOf(qs[i].options[1][1])>>)

\* The same for the grader called on questions whose first option has text.
C24_WhenFirstOptionHasText ==
    Graded =>
        /\ Len(evalOut.feedback) = Len(evalIn.quiz_data)
        /\ \A i \in 1..Len(evalIn.quiz_data) :
              NoOptionNamed(evalIn.quiz_data[i]) =>
                  (evalOut.feedback[i].is_correct
                      <=> FirstLetter(evalIn.user_answers[i])
                              = <<CapitalOf(evalIn.quiz_data[i].options[1][1])>>)

\* Options "C) z", "D) w" with correct_option "a": the answer " cx" is correct.
C24_FirstOptionTaken ==
    /\ Graded
    /\ Len(evalIn.quiz_data) = 1
    /\ NoOptionNamed(evalIn.quiz_data[1])
    /\ evalIn.user_answers[1] = <<" ", "c", "x">>
    /\ evalOut.feedback[1].is_correct
    /\ evalOut.feedback[1].correct_answer = <<"C", ")", " ">>

----------------------------------------------------------------------------
(* Claims about blank answers *)

\* C25: evaluate_quiz_ai never grades an answer that is empty after trimming
\* as correct, whatever the question, a question without options and an entry
\* that is no record included.
C25_BlankNeverCorrect ==
    Graded =>
        \A i \in 1..Len(evalOut.feedback) :
            Strip(evalIn.user_answers[i]) = <<>> => ~evalOut.feedback[i].is_correct

\* The same for the questions that are records with at least one option.
C25_BlankWrongWithOptions ==
    Graded =>
        \A i \in 1..Len(evalOut.feedback) :
            (/\ Strip(evalIn.user_answers[i]) = <<>>
             /\ IsDict(evalIn.quiz_data[i])
             /\ Get(evalIn.quiz_data[i], "options", <<>>) # <<>>)
                => /\ ~evalOut.feedback[i].is_correct
                   /\ evalOut.feedback[i].marks_awarded = 0

\* A blank answer to a question with options, graded wrong.
C25_BlankGradedWrong ==
    /\ Graded
    /\ evalIn.quiz_data = <<ProviderEasy>>
    /\ evalIn.user_answers = << <<" ">> >>
    /\ ~evalOut.feedback[1].is_correct
    /\ evalOut.total_score = 0

----------------------------------------------------------------------------
(* Claims about the submission behind a success response *)

\* The stored submission id holds the result the response reports.
HoldsResponse(id) ==
    /\ id \in 1..Len(submissions)
    /\ submissions[id].id = id
    /\ submissions[id].quiz_id = subReq.quiz_id
    /\ submissions[id].user_id = subReq.user_id
    /\ submissions[id].total_score = subOut.total_score
    /\ submissions[id].max_score = subOut.max_score
    /\ submissions[id].answers_json = json_dumps(subReq.user_answers)
    /\ submissions[id].feedback_json = json_dumps(subOut.feedback)
    /\ submissions[id].suggestions = subOut.suggestions

\* C26: whenever /quiz/evaluate answers with status success, a submission
\* record holding that result is stored and the response's submission_id
\* identifies it.
C26_SuccessMeansStored ==
    subOut.code = 200 => HoldsResponse(subOut.submission_id)

\* The same for the responses that carry a submission_id.
C26_IdentifiedWhenStored ==
    (subOut.code = 200 /\ subOut.submission_id # 0)
        => HoldsResponse(subOut.submission_id)

\* A second evaluation stored and identified by its response.
C26_SecondStored ==
    /\ subOut.code = 200
    /\ subOut.submission_id = 2
    /\ Len(submissions) = 2

----------------------------------------------------------------------------
(* Claims about the submission history *)

\* The filters of the request with the authenticated user as the owner.
OwnFilters == [history.req EXCEPT !.user_id = history.current_user]

\* C27: a /quiz/history request of an authenticated user returns only
\* submissions of that user, whatever query parameters are supplied, and what
\* it returns is an answer to the same request over that user's submissions
\* alone.
C27_OnlyOwnSubmissions ==
    (history.called /\ history.code = 200) =>
        /\ \A k \in 1..Len(history.results) :
              history.results[k].user_id = history.current_user
        /\ \E found \in get_submissions_by_filters(quizzes, submissions, OwnFilters) :
              /\ history.total = found.total
              /\ history.results = [k \in 1..Len(found.items) |->
                                       HistoryEntry(quizzes, submissions[found.items[k]])]

\* The same for requests that name no user or the authenticated one.
C27_OwnByDefault ==
    (history.called /\ history.req.user_id \in {"", history.current_user})
        => C27_OnlyOwnSubmissions

\* alice asks without parameters while bob has a submission: she gets hers.
C27_OwnReturned ==
    /\ history.called /\ history.code = 200
    /\ history.current_user = "alice" /\ history.req = PlainHistory
    /\ Len(submissions) = 2
    /\ \E i \in 1..2 : submissions[i].user_id = "bob"
    /\ history.total = 1
    /\ history.results[1].user_id = "alice"

----------------------------------------------------------------------------
(* Claims about the next difficulty *)

\* The most recent submissions of the requesting user.
LatestOwn ==
    {i \in 1..Len(submissions) :
        /\ submissions[i].user_id = nextDiff.current_user
        /\ \A j \in 1..Len(submissions) :
              submissions[j].user_id = nextDiff.current_user
                  => submissions[i].created_at >= submissions[j].created_at}

\* HARD iff at least 80 of 100, MEDIUM iff at least 50 and below 80, else
\* EASY, for the score num out of den.
LevelFor(num, den) ==
    IF num * 100 >= 80 * den THEN "HARD"
    ELSE IF num * 100 >= 50 * den THEN "MEDIUM"
    ELSE "EASY"

\* C28: for a user with a stored submission /quiz/next_difficulty decides from
\* the percentage total_score / max_score * 100 of the latest submission: HARD
\* iff it is >= 80, MEDIUM iff >= 50 and < 80, EASY otherwise; for a user
\* without submissions it applies the same thresholds to previous_score.
C28_FromLatestPercentage ==
    nextDiff.called =>
        IF LatestOwn = {}
        THEN nextDiff.next_difficulty = LevelFor(nextDiff.req.previous_score, 100)
        ELSE \E i \in LatestOwn :
                nextDiff.next_difficulty
                    = LevelFor(submissions[i].total_score, submissions[i].max_score)

\* The thresholds applied to the latest total_score as stored, or to
\* previous_score for a user without submissions.
C28_FromLatestScore ==
    nextDiff.called =>
        IF LatestOwn = {}
        THEN /\ nextDiff.next_difficulty = LevelFor(nextDiff.req.previous_score, 100)
             /\ nextDiff.previous_score = nextDiff.req.previous_score
        ELSE \E i \in LatestOwn :
                /\ nextDiff.next_difficulty = LevelFor(submissions[i].total_score, 100)
                /\ nextDiff.previous_score = submissions[i].total_score

\* alice's latest submission is 80 of 100 after an earlier 60 of 100: HARD,
\* whatever previous_score says.
C28_LatestDecides ==
    /\ nextDiff.called
    /\ nextDiff.current_user = "alice"
    /\ nextDiff.req.previous_score = 0
    /\ Len(submissions) = 2
    /\ submissions[1].total_score = 60 /\ submissions[2].total_score = 80
    /\ submissions[2].created_at > submissions[1].created_at
    /\ nextDiff.next_difficulty = "HARD"

----------------------------------------------------------------------------
(* Claims about the mix across performance tiers *)

\* The mix the planner gives a learner whose one submission scored sc, for n
\* questions.
MixAfter(sc, n) ==
    Distribution(create_submission(<<>>, [quiz_id |-> 1, user_id |-> "alice",
                                          total_score |-> sc[1], max_score |-> sc[2]]
                                         @@ NoTexts, 1),
                 {1}, n)

\* C29: for every total_questions in 5..30 the number of hard questions planned
\* does not decrease from the struggling tier (ratio <= 0.5) over the average
\* tier (0.5 < ratio <= 0.8) to the tier doing well (ratio > 0.8), and the
\* number of easy questions does not increase; the mix planned for a learner
\* with history is that of the learner's tier.
C29_HarderWithPerformance ==
    (plan.called /\ plan.rows # {}
        /\ plan.total_questions \in MinQuestions..MaxQuestions) =>
        LET n == plan.total_questions
            struggling == {MixAfter(sc, n) : sc \in {<<0, 0>>, <<2, 10>>, <<5, 10>>}}
            average == {MixAfter(sc, n) : sc \in {<<6, 10>>, <<8, 10>>}}
            well == {MixAfter(sc, n) : sc \in {<<9, 10>>, <<10, 10>>}}
            total == SumOver(plan.rows, [i \in plan.rows |-> submissions[i].total_score])
            possible == SumOver(plan.rows, [i \in plan.rows |-> submissions[i].max_score])
        IN /\ \A lo \in struggling : \A av \in average : \A hi \in well :
                 /\ lo.hard <= av.hard /\ av.hard <= hi.hard
                 /\ lo.easy >= av.easy /\ av.easy >= hi.easy
           /\ plan.mix \in
                 IF possible = 0 \/ 10 * total <= 5 * possible THEN struggling
                 ELSE IF 10 * total <= 8 * possible THEN average
                 ELSE well

\* 30 questions for a learner at 0.9: 6 easy, 12 medium, 12 hard, against 6 hard
\* in the average tier and 3 when struggling.
C29_Witness ==
    /\ plan.called
    /\ plan.total_questions = MaxQuestions
    /\ plan.rows # {}
    /\ plan.mix = [easy |-> 6, medium |-> 12, hard |-> 12]
    /\ MixAfter(<<8, 10>>, MaxQuestions).hard = 6
    /\ MixAfter(<<5, 10>>, MaxQuestions).hard = 3

----------------------------------------------------------------------------
(* Claims about the quiz-taking session *)

C30_WhileAnswering ==
    session.loaded =>
        /\ ~session.is_submitted =>
              session.current_question \in 0..(session.quiz.n - 1)
        /\ session.is_submitted =>
              /\ session.result # NoResult
              /\ session.result.status = "success"

\* Previous, Next, Restart and Submit on the loaded quiz keep current_question
\* within 0..n-1; the quiz becomes submitted only from its last question, with
\* a successful evaluation of all its questions as the result; a step that
\* leaves the quiz unsubmitted leaves the result unchanged.
C30_NavigationSteps ==
    [][(session.loaded /\ session'.loaded /\ session'.quiz = session.quiz
            /\ ~session.is_submitted) =>
          /\ session'.current_question \in 0..(session.quiz.n - 1)
          /\ session'.is_submitted =>
                /\ session.current_question = session.quiz.n - 1
                /\ session'.result = [status |-> "success",
                                      total_questions |-> session.quiz.n]
          /\ ~session'.is_submitted => session'.result = session.result]_vars

\* The longest quiz submitted from its last question after every question was
\* answered.
C30_Submitted ==
    /\ session.loaded
    /\ session.quiz.n = MaxSessionQ
    /\ session.is_submitted
    /\ session.current_question = MaxSessionQ - 1
    /\ session.result = [status |-> "success", total_questions |-> MaxSessionQ]

====
